---- MODULE Spec2Model ----
(***************************************************************************)
(* Tax engine of taxis (src/src/taxCalculator.ts): calculateTax and        *)
(* calculateDetailedTaxBreakdown over the TAX_YEAR_DATA tables; the        *)
(* ScenarioManager that keeps a list of scenarios, each with the engine's  *)
(* results for its inputs, and saves the list to localStorage; the         *)
(* UIManager that renders one card per scenario and turns the user's       *)
(* edits into updates of the manager.                                      *)
(*                                                                         *)
(* Units.  Monetary inputs are whole dollars.  The source writes rates as  *)
(* decimal fractions (0.10, 0.15, 0.038); here a rate is the integer       *)
(* rate * 1000 and every tax amount is in thousandths of a dollar, so      *)
(* that amount * rate is exact.  effectiveRate, a quotient, is kept as the  *)
(* fraction num / den of its percentage.                                   *)
(***************************************************************************)
EXTENDS Integers, Sequences, FiniteSets

VARIABLES
    inputs,             \* TaxInputs handed to the engine
    locals,             \* the local constants of the last calculateTax call
    results,            \* TaxResults returned by calculateTax
    detailedBreakdown,  \* DetailedTaxBreakdown returned by calculateDetailedTaxBreakdown
    pc,                 \* "inputs" -> "summary" -> "done"; "boot" -> "ready"
    thrown,             \* the functions whose last call ended in an exception
    scenarios,          \* ScenarioManager.scenarios
    localStorage,       \* the item 'taxis-scenarios' of localStorage
    now,                \* Date.now()
    notified,           \* calls of notify() made by the last operation
    cards,              \* the scenario cards in the document, as last rendered
    timers,             \* the pending debounce timers, oldest first
    typed,              \* history: per scenario id and field, what was typed
    modalContainer,     \* the children of #global-modal-container
    bodyOverflow        \* document.body.style.overflow

engineVars == <<inputs, locals, results, detailedBreakdown>>

managerVars == <<scenarios, localStorage, now, notified>>

modalVars == <<modalContainer, bodyOverflow>>

uiVars == <<cards, timers, typed, modalContainer, bodyOverflow>>

vars == <<inputs, locals, results, detailedBreakdown, pc, thrown,
          scenarios, localStorage, now, notified, cards, timers, typed,
          modalContainer, bodyOverflow>>

(***************************************************************************)
(* Bounds of the model: which inputs are enumerated.                       *)
(***************************************************************************)
\* Inputs are probed within Radius dollars of every table threshold.
Radius == 1
\* A non-zero amount of ordinary earnings (interest, short-term gains).
EarningsProbe == 50000
\* A long-term gain smaller than every standard deduction.
GainsProbe == 10000
\* A capital loss smaller than GainsProbe.
LossProbe == 4000
\* Signed inputs: a large negative amount, a large positive amount, and a
\* negative count of seniors large enough to turn totalDeductions negative.
NegativeProbe == 30000
PositiveProbe == 300000
NegativeSeniorsProbe == 20
\* A tax year that is no key of TAX_YEAR_DATA.
UnknownTaxYear == 2026

(***************************************************************************)
(* Tax tables.                                                             *)
(***************************************************************************)
\* The unbounded top of the last bracket: above every amount of the model.
Infinity == 2000000000

TAX_YEAR_2024 ==
  [ standardDeductions |->
        [single |-> 14600, marriedFilingJointly |-> 29200, marriedFilingSeparately |-> 14600],
    seniorAdditionalDeduction |->
        [single |-> 1950, marriedFilingJointly |-> 1550, marriedFilingSeparately |-> 1550],
    taxBrackets |-> [
        single |-> <<
            [min |-> 0, max |-> 11600, rate |-> 100],
            [min |-> 11600, max |-> 47150, rate |-> 120],
            [min |-> 47150, max |-> 100525, rate |-> 220],
            [min |-> 100525, max |-> 191950, rate |-> 240],
            [min |-> 191950, max |-> 243725, rate |-> 320],
            [min |-> 243725, max |-> 609350, rate |-> 350],
            [min |-> 609350, max |-> Infinity, rate |-> 370] >>,
        marriedFilingJointly |-> <<
            [min |-> 0, max |-> 23200, rate |-> 100],
            [min |-> 23200, max |-> 94300, rate |-> 120],
            [min |-> 94300, max |-> 201050, rate |-> 220],
            [min |-> 201050, max |-> 383900, rate |-> 240],
            [min |-> 383900, max |-> 487450, rate |-> 320],
            [min |-> 487450, max |-> 731200, rate |-> 350],
            [min |-> 731200, max |-> Infinity, rate |-> 370] >>,
        marriedFilingSeparately |-> <<
            [min |-> 0, max |-> 11600, rate |-> 100],
            [min |-> 11600, max |-> 47150, rate |-> 120],
            [min |-> 47150, max |-> 100525, rate |-> 220],
            [min |-> 100525, max |-> 191950, rate |-> 240],
            [min |-> 191950, max |-> 243725, rate |-> 320],
            [min |-> 243725, max |-> 365600, rate |-> 350],
            [min |-> 365600, max |-> Infinity, rate |-> 370] >> ],
    ltcgThresholds |-> [
        single |-> [zero |-> 47025, fifteen |-> 518900],
        marriedFilingJointly |-> [zero |-> 94050, fifteen |-> 583750],
        marriedFilingSeparately |-> [zero |-> 47025, fifteen |-> 291850] ],
    niitThresholds |->
        [single |-> 200000, marriedFilingJointly |-> 250000, marriedFilingSeparately |-> 125000] ]

TAX_YEAR_2025 ==
  [ standardDeductions |->
        [single |-> 15000, marriedFilingJointly |-> 30000, marriedFilingSeparately |-> 15000],
    seniorAdditionalDeduction |->
        [single |-> 2000, marriedFilingJointly |-> 1600, marriedFilingSeparately |-> 1600],
    taxBrackets |-> [
        single |-> <<
            [min |-> 0, max |-> 11925, rate |-> 100],
            [min |-> 11925, max |-> 48475, rate |-> 120],
            [min |-> 48475, max |-> 103350, rate |-> 220],
            [min |-> 103350, max |-> 197300, rate |-> 240],
            [min |-> 197300, max |-> 250525, rate |-> 320],
            [min |-> 250525, max |-> 626350, rate |-> 350],
            [min |-> 626350, max |-> Infinity, rate |-> 370] >>,
        marriedFilingJointly |-> <<
            [min |-> 0, max |-> 23850, rate |-> 100],
            [min |-> 23850, max |-> 96950, rate |-> 120],
            [min |-> 96950, max |-> 206700, rate |-> 220],
            [min |-> 206700, max |-> 394600, rate |-> 240],
            [min |-> 394600, max |-> 501050, rate |-> 320],
            [min |-> 501050, max |-> 751600, rate |-> 350],
            [min |-> 751600, max |-> Infinity, rate |-> 370] >>,
        marriedFilingSeparately |-> <<
            [min |-> 0, max |-> 11925, rate |-> 100],
            [min |-> 11925, max |-> 48475, rate |-> 120],
            [min |-> 48475, max |-> 103350, rate |-> 220],
            [min |-> 103350, max |-> 197300, rate |-> 240],
            [min |-> 197300, max |-> 250525, rate |-> 320],
            [min |-> 250525, max |-> 375800, rate |-> 350],
            [min |-> 375800, max |-> Infinity, rate |-> 370] >> ],
    ltcgThresholds |-> [
        single |-> [zero |-> 48475, fifteen |-> 535925],
        marriedFilingJointly |-> [zero |-> 96950, fifteen |-> 601650],
        marriedFilingSeparately |-> [zero |-> 48475, fifteen |-> 300825] ],
    niitThresholds |->
        [single |-> 200000, marriedFilingJointly |-> 250000, marriedFilingSeparately |-> 125000] ]


\* The tables of the 2024-only calculator.
TAX_BRACKETS ==
  [ single |-> <<
        [min |-> 0, max |-> 11600, rate |-> 100],
        [min |-> 11600, max |-> 47150, rate |-> 120],
        [min |-> 47150, max |-> 100525, rate |-> 220],
        [min |-> 100525, max |-> 191950, rate |-> 240],
        [min |-> 191950, max |-> 243725, rate |-> 320],
        [min |-> 243725, max |-> 609350, rate |-> 350],
        [min |-> 609350, max |-> Infinity, rate |-> 370] >>,
    marriedFilingJointly |-> <<
        [min |-> 0, max |-> 23200, rate |-> 100],
        [min |-> 23200, max |-> 94300, rate |-> 120],
        [min |-> 94300, max |-> 201050, rate |-> 220],
        [min |-> 201050, max |-> 383900, rate |-> 240],
        [min |-> 383900, max |-> 487450, rate |-> 320],
        [min |-> 487450, max |-> 731200, rate |-> 350],
        [min |-> 731200, max |-> Infinity, rate |-> 370] >>,
    marriedFilingSeparately |-> <<
        [min |-> 0, max |-> 11600, rate |-> 100],
        [min |-> 11600, max |-> 47150, rate |-> 120],
        [min |-> 47150, max |-> 100525, rate |-> 220],
        [min |-> 100525, max |-> 191950, rate |-> 240],
        [min |-> 191950, max |-> 243725, rate |-> 320],
        [min |-> 243725, max |-> 365600, rate |-> 350],
        [min |-> 365600, max |-> Infinity, rate |-> 370] >> ]

LTCG_THRESHOLDS ==
  [ single |-> [zero |-> 47025, fifteen |-> 518900],
    marriedFilingJointly |-> [zero |-> 94050, fifteen |-> 583750],
    marriedFilingSeparately |-> [zero |-> 47025, fifteen |-> 291850] ]

\* Mutation: the second 2024 single bracket starts above the end of the first.
TAX_YEAR_DATA_gap ==
    [y \in {2024, 2025} |->
        IF y = 2024
        THEN [TAX_YEAR_2024 EXCEPT !.taxBrackets.single[2].min = 11700]
        ELSE TAX_YEAR_2025]

TAX_YEAR_DATA == [y \in {2024, 2025} |-> IF y = 2024 THEN TAX_YEAR_2024 ELSE TAX_YEAR_2025]

TaxYear == DOMAIN TAX_YEAR_DATA

FilingStatus == {"single", "marriedFilingJointly", "marriedFilingSeparately"}

\* Rates of the long-term capital gains tiers and of the NIIT, times 1000.
FIFTEEN_RATE == 150

TWENTY_RATE == 200

NIIT_RATE == 38

\* obj[key] of a JavaScript object: the property, or undefined when obj has none.
Lookup(obj, key) ==
    IF key \in DOMAIN obj THEN [defined |-> TRUE, value |-> obj[key]]
    ELSE [defined |-> FALSE]

\* A call that returned value / a call that ended in an uncaught TypeError.
Returned(value) == [threw |-> FALSE, value |-> value]

TypeError == [threw |-> TRUE]

\* The element of a one-element set.  { F(x) : x \in {e} } evaluates e once,
\* however often F uses it.
The(S) == CHOOSE x \in S : TRUE

Min(a, b) == IF a <= b THEN a ELSE b

Max(a, b) == IF a >= b THEN a ELSE b

(***************************************************************************)
(* calculateTaxFromBrackets: the loop over the bracket list.  bracketLoop  *)
(* returns the accumulated tax and the index at which the loop ended       *)
(* (by break, or Len + 1 when the list is exhausted).                      *)
(***************************************************************************)
\* Mutation: the part of the income above bracket.max is not cut off.
taxableInBracket_uncapped(income, bracket) == income - bracket.min

\* Mutation: the bracket is taxed from 0 instead of from bracket.min.
taxableInBracket_fromZero(income, bracket) == Min(income, bracket.max)

\* const taxableInBracket = Math.min(income, bracket.max) - bracket.min
taxableInBracket(income, bracket) == Min(income, bracket.max) - bracket.min

RECURSIVE bracketLoop(_, _, _, _)
bracketLoop(income, brackets, i, tax) ==
    IF i > Len(brackets) THEN [tax |-> tax, stop |-> i]
    ELSE IF income <= brackets[i].min THEN [tax |-> tax, stop |-> i]
    ELSE bracketLoop(income, brackets, i + 1,
                     tax + taxableInBracket(income, brackets[i]) * brackets[i].rate)

STANDARD_DEDUCTIONS ==
    [single |-> 14600, marriedFilingJointly |-> 29200, marriedFilingSeparately |-> 14600]

SENIOR_ADDITIONAL_DEDUCTION ==
    [single |-> 1950, marriedFilingJointly |-> 1550, marriedFilingSeparately |-> 1550]

\* Mutation: the joint NIIT threshold is that of a single filer.
NIIT_THRESHOLDS_jointAsSingle ==
    [single |-> 200000, marriedFilingJointly |-> 200000, marriedFilingSeparately |-> 125000]

\* The record both functions of the 2024-only calculator declare locally.
NIIT_THRESHOLDS ==
    [single |-> 200000, marriedFilingJointly |-> 250000, marriedFilingSeparately |-> 125000]

calculateTaxFromBrackets(income, brackets) == bracketLoop(income, brackets, 1, 0).tax

(***************************************************************************)
(* calculateTax, piece by piece.                                           *)
(***************************************************************************)
\* Mutation: seniors65Plus is read as a flag, not as a count.
deductions_seniorFlag(taxData, in) ==
    LET standardDeduction == taxData.standardDeductions[in.filingStatus]
        seniorDeductionPerPerson == taxData.seniorAdditionalDeduction[in.filingStatus]
        seniorDeduction == IF in.seniors65Plus > 0 THEN seniorDeductionPerPerson ELSE 0
        totalDeductions == standardDeduction + seniorDeduction
    IN  [standardDeduction |-> standardDeduction,
         seniorDeductionPerPerson |-> seniorDeductionPerPerson,
         seniorDeduction |-> seniorDeduction,
         totalDeductions |-> totalDeductions]

deductions(taxData, in) ==
    LET standardDeduction == taxData.standardDeductions[in.filingStatus]
        seniorDeductionPerPerson == taxData.seniorAdditionalDeduction[in.filingStatus]
        seniorDeduction == in.seniors65Plus * seniorDeductionPerPerson
        totalDeductions == standardDeduction + seniorDeduction
    IN  [standardDeduction |-> standardDeduction,
         seniorDeductionPerPerson |-> seniorDeductionPerPerson,
         seniorDeduction |-> seniorDeduction,
         totalDeductions |-> totalDeductions]

\* Mutation: taxableIncome is not clamped at zero.
incomeTotals_taxableNotClamped(in, totalDeductions) ==
    LET ordinaryGross == in.ordinaryIncome + in.ordinaryEarnings
        netCapitalGains == Max(0, in.longTermCapitalGains - in.capitalLosses)
        totalIncome == in.ordinaryIncome + in.ordinaryEarnings
                         + in.longTermCapitalGains - in.capitalLosses
        taxableIncome == totalIncome - totalDeductions
    IN  [ordinaryGross |-> ordinaryGross,
         netCapitalGains |-> netCapitalGains,
         totalIncome |-> totalIncome,
         taxableIncome |-> taxableIncome]

\* Mutation: totalIncome is built from the clamped netCapitalGains.
incomeTotals_netGains(in, totalDeductions) ==
    LET ordinaryGross == in.ordinaryIncome + in.ordinaryEarnings
        netCapitalGains == Max(0, in.longTermCapitalGains - in.capitalLosses)
        totalIncome == ordinaryGross + netCapitalGains
        taxableIncome == Max(0, totalIncome - totalDeductions)
    IN  [ordinaryGross |-> ordinaryGross,
         netCapitalGains |-> netCapitalGains,
         totalIncome |-> totalIncome,
         taxableIncome |-> taxableIncome]

incomeTotals(in, totalDeductions) ==
    LET ordinaryGross == in.ordinaryIncome + in.ordinaryEarnings
        netCapitalGains == Max(0, in.longTermCapitalGains - in.capitalLosses)
        totalIncome == in.ordinaryIncome + in.ordinaryEarnings
                         + in.longTermCapitalGains - in.capitalLosses
        taxableIncome == Max(0, totalIncome - totalDeductions)
    IN  [ordinaryGross |-> ordinaryGross,
         netCapitalGains |-> netCapitalGains,
         totalIncome |-> totalIncome,
         taxableIncome |-> taxableIncome]

allocateDeductions(ordinaryGross, netCapitalGains, totalDeductions) ==
    LET ordinaryTaxable == Max(0, ordinaryGross - totalDeductions)
        deductionLeftoverForLTCG == Max(0, totalDeductions - ordinaryGross)
        ltcgTaxable == Max(0, netCapitalGains - deductionLeftoverForLTCG)
    IN  [ordinaryTaxable |-> ordinaryTaxable,
         deductionLeftoverForLTCG |-> deductionLeftoverForLTCG,
         ltcgTaxable |-> ltcgTaxable]

\* Mutation: the gains are measured against the ceilings from 0, not from
\* ordinaryTaxable.
stackLTCG_notStacked(ltcgTaxable, ordinaryTaxable, thresholds) ==
    LET zeroThreshold == thresholds.zero
        fifteenThreshold == thresholds.fifteen
        remaining0 == ltcgTaxable
        zeroPortion == Min(remaining0, Max(0, zeroThreshold))
        remaining1 == remaining0 - zeroPortion
        fifteenPortion == Min(remaining1, Max(0, fifteenThreshold - zeroPortion))
        remaining2 == remaining1 - fifteenPortion
        twentyPortion == Max(0, remaining2)
    IN  [zeroPortion |-> zeroPortion,
         fifteenPortion |-> fifteenPortion,
         twentyPortion |-> twentyPortion]

\* Mutation: remainingLTCG is not reduced by zeroPortion.
stackLTCG_zeroNotTakenOff(ltcgTaxable, ordinaryTaxable, thresholds) ==
    LET zeroThreshold == thresholds.zero
        fifteenThreshold == thresholds.fifteen
        remaining0 == ltcgTaxable
        zeroPortion == Min(remaining0, Max(0, zeroThreshold - ordinaryTaxable))
        fifteenPortion ==
            Min(remaining0, Max(0, fifteenThreshold - ordinaryTaxable - zeroPortion))
        remaining2 == remaining0 - fifteenPortion
        twentyPortion == Max(0, remaining2)
    IN  [zeroPortion |-> zeroPortion,
         fifteenPortion |-> fifteenPortion,
         twentyPortion |-> twentyPortion]

\* Mutation: the fifteen ceiling is not lowered by zeroPortion.
stackLTCG_ceilingNotStacked(ltcgTaxable, ordinaryTaxable, thresholds) ==
    LET zeroThreshold == thresholds.zero
        fifteenThreshold == thresholds.fifteen
        remaining0 == ltcgTaxable
        zeroPortion == Min(remaining0, Max(0, zeroThreshold - ordinaryTaxable))
        remaining1 == remaining0 - zeroPortion
        fifteenPortion == Min(remaining1, Max(0, fifteenThreshold - ordinaryTaxable))
        remaining2 == remaining1 - fifteenPortion
        twentyPortion == Max(0, remaining2)
    IN  [zeroPortion |-> zeroPortion,
         fifteenPortion |-> fifteenPortion,
         twentyPortion |-> twentyPortion]

stackLTCG(ltcgTaxable, ordinaryTaxable, thresholds) ==
    LET zeroThreshold == thresholds.zero
        fifteenThreshold == thresholds.fifteen
        remaining0 == ltcgTaxable
        zeroPortion == Min(remaining0, Max(0, zeroThreshold - ordinaryTaxable))
        remaining1 == remaining0 - zeroPortion
        fifteenPortion ==
            Min(remaining1, Max(0, fifteenThreshold - ordinaryTaxable - zeroPortion))
        remaining2 == remaining1 - fifteenPortion
        twentyPortion == Max(0, remaining2)
    IN  [zeroPortion |-> zeroPortion,
         fifteenPortion |-> fifteenPortion,
         twentyPortion |-> twentyPortion]

capitalGainsTaxOf(p) ==
    p.zeroPortion * 0 + p.fifteenPortion * FIFTEEN_RATE + p.twentyPortion * TWENTY_RATE

\* Mutation: ordinaryEarnings enters net investment income without Math.max(0, ...).
niit_earningsNotClamped(in, ordinaryGross, netCapitalGains, niitThreshold) ==
    LET magiApprox == ordinaryGross + netCapitalGains
        netInvestmentIncome == in.ordinaryEarnings + netCapitalGains
        niitExcess == Max(0, magiApprox - niitThreshold)
        niitTax == NIIT_RATE * Min(netInvestmentIncome, niitExcess)
    IN  [magiApprox |-> magiApprox,
         netInvestmentIncome |-> netInvestmentIncome,
         niitThreshold |-> niitThreshold,
         niitExcess |-> niitExcess,
         niitTax |-> niitTax]

\* Mutation: the greater of net investment income and the excess is taxed.
niit_greaterOf(in, ordinaryGross, netCapitalGains, niitThreshold) ==
    LET magiApprox == ordinaryGross + netCapitalGains
        netInvestmentIncome == Max(0, in.ordinaryEarnings) + netCapitalGains
        niitExcess == Max(0, magiApprox - niitThreshold)
        niitTax == NIIT_RATE * Max(netInvestmentIncome, niitExcess)
    IN  [magiApprox |-> magiApprox,
         netInvestmentIncome |-> netInvestmentIncome,
         niitThreshold |-> niitThreshold,
         niitExcess |-> niitExcess,
         niitTax |-> niitTax]

\* Mutation: the shortfall below the threshold is taken for the excess.
niit_shortfall(in, ordinaryGross, netCapitalGains, niitThreshold) ==
    LET magiApprox == ordinaryGross + netCapitalGains
        netInvestmentIncome == Max(0, in.ordinaryEarnings) + netCapitalGains
        niitExcess == Max(0, niitThreshold - magiApprox)
        niitTax == NIIT_RATE * Min(netInvestmentIncome, niitExcess)
    IN  [magiApprox |-> magiApprox,
         netInvestmentIncome |-> netInvestmentIncome,
         niitThreshold |-> niitThreshold,
         niitExcess |-> niitExcess,
         niitTax |-> niitTax]

niit(in, ordinaryGross, netCapitalGains, niitThreshold) ==
    LET magiApprox == ordinaryGross + netCapitalGains
        netInvestmentIncome == Max(0, in.ordinaryEarnings) + netCapitalGains
        niitExcess == Max(0, magiApprox - niitThreshold)
        niitTax == NIIT_RATE * Min(netInvestmentIncome, niitExcess)
    IN  [magiApprox |-> magiApprox,
         netInvestmentIncome |-> netInvestmentIncome,
         niitThreshold |-> niitThreshold,
         niitExcess |-> niitExcess,
         niitTax |-> niitTax]

\* Mutation: an unknown tax year falls back to the 2024 table.
taxDataOf_default2024(in) ==
    IF in.taxYear \in DOMAIN TAX_YEAR_DATA THEN Lookup(TAX_YEAR_DATA, in.taxYear)
    ELSE Lookup(TAX_YEAR_DATA, 2024)

\* const taxData = TAX_YEAR_DATA[inputs.taxYear]
taxDataOf(in) == Lookup(TAX_YEAR_DATA, in.taxYear)

\* Every local constant of calculateTax at its return statement.
\* Each local is bound once, in the order of the statements (listed last to
\* first).
calculateTaxLocals(in) ==
    The({ The({ The({ The({ The({ The({ The({ The({
        [standardDeduction |-> d.standardDeduction,
         seniorDeductionPerPerson |-> d.seniorDeductionPerPerson,
         seniorDeduction |-> d.seniorDeduction,
         totalDeductions |-> d.totalDeductions,
         ordinaryGross |-> t.ordinaryGross,
         netCapitalGains |-> t.netCapitalGains,
         totalIncome |-> t.totalIncome,
         taxableIncome |-> t.taxableIncome,
         ordinaryTaxable |-> a.ordinaryTaxable,
         deductionLeftoverForLTCG |-> a.deductionLeftoverForLTCG,
         ltcgTaxable |-> a.ltcgTaxable,
         bracketsVisited |-> loop.stop - 1,
         ordinaryTax |-> ordinaryTax,
         zeroPortion |-> p.zeroPortion,
         fifteenPortion |-> p.fifteenPortion,
         twentyPortion |-> p.twentyPortion,
         capitalGainsTax |-> capitalGainsTaxOf(p),
         magiApprox |-> n.magiApprox,
         netInvestmentIncome |-> n.netInvestmentIncome,
         niitThreshold |-> n.niitThreshold,
         niitExcess |-> n.niitExcess,
         niitTax |-> n.niitTax,
         totalTax |-> ordinaryTax + capitalGainsTaxOf(p) + n.niitTax]
        : n \in {niit(in, t.ordinaryGross, t.netCapitalGains,
                      taxData.niitThresholds[in.filingStatus])} })
        : p \in {stackLTCG(a.ltcgTaxable, a.ordinaryTaxable,
                           taxData.ltcgThresholds[in.filingStatus])} })
        : ordinaryTax \in {calculateTaxFromBrackets(a.ordinaryTaxable, brackets)} })
        : loop \in {bracketLoop(a.ordinaryTaxable, brackets, 1, 0)} })
        : brackets \in {taxData.taxBrackets[in.filingStatus]} })
        : a \in {allocateDeductions(t.ordinaryGross, t.netCapitalGains,
                                    d.totalDeductions)} })
        : t \in {incomeTotals(in, d.totalDeductions)} })
        : d \in {deductions(taxDataOf(in).value, in)},
          taxData \in {taxDataOf(in).value} })

\* The quotient n / d as a fraction; every zero is the same value.
Ratio(n, d) == IF n = 0 THEN [num |-> 0, den |-> 1] ELSE [num |-> n, den |-> d]

\* Mutation: the tax is divided by the income without the totalIncome > 0 test.
effectiveRate_noGuard(totalTax, totalIncome) ==
    [num |-> totalTax, den |-> 10 * totalIncome]

\* const effectiveRate = totalIncome > 0 ? (totalTax / totalIncome) * 100 : 0
\* totalTax is in thousandths of a dollar, so the percentage is
\* totalTax / (10 * totalIncome).
effectiveRate(totalTax, totalIncome) ==
    IF totalIncome > 0 THEN Ratio(totalTax, 10 * totalIncome) ELSE Ratio(0, 1)

\* The record calculateTax returns.
calculateTax(in) ==
    The({ [standardDeduction |-> l.standardDeduction,
           seniorDeduction |-> l.seniorDeduction,
           totalDeductions |-> l.totalDeductions,
           taxableIncome |-> l.taxableIncome,
           ordinaryTax |-> l.ordinaryTax,
           capitalGainsTax |-> l.capitalGainsTax,
           niitTax |-> l.niitTax,
           totalTax |-> l.totalTax,
           effectiveRate |-> effectiveRate(l.totalTax, l.totalIncome)]
          : l \in {calculateTaxLocals(in)} })

\* A call of calculateTax.  With taxData undefined, reading
\* taxData.standardDeductions throws.  With a filing status the table does not
\* have, the deductions are undefined and NaN, nothing throws until
\* calculateTaxFromBrackets iterates taxData.taxBrackets[inputs.filingStatus],
\* which is undefined: for...of throws.
calculateTaxOutcome(in) ==
    LET taxData == taxDataOf(in)
    IN  IF ~taxData.defined THEN TypeError
        ELSE IF ~Lookup(taxData.value.taxBrackets, in.filingStatus).defined THEN TypeError
        ELSE Returned(calculateTax(in))

(***************************************************************************)
(* calculateDetailedTaxBreakdown, piece by piece.  The function repeats    *)
(* the computation of calculateTax in its own statements, which are        *)
(* modelled by their own definitions.                                      *)
(***************************************************************************)
deductionsDetailed(taxData, in) ==
    LET standardDeduction == taxData.standardDeductions[in.filingStatus]
        seniorDeductionPerPerson == taxData.seniorAdditionalDeduction[in.filingStatus]
        seniorDeduction == in.seniors65Plus * seniorDeductionPerPerson
        totalDeductions == standardDeduction + seniorDeduction
    IN  [standardDeduction |-> standardDeduction,
         seniorDeduction |-> seniorDeduction,
         seniorDeductionPerPerson |-> seniorDeductionPerPerson,
         totalDeductions |-> totalDeductions]

grossComponentsDetailed(in) ==
    LET ordinaryGross == in.ordinaryIncome + in.ordinaryEarnings
        netCapitalGains == Max(0, in.longTermCapitalGains - in.capitalLosses)
        totalStandardIncome == in.ordinaryIncome + in.ordinaryEarnings
    IN  [ordinaryGross |-> ordinaryGross,
         netCapitalGains |-> netCapitalGains,
         totalStandardIncome |-> totalStandardIncome]

\* Mutation: deductions are consumed by capital gains first.
allocateDeductionsDetailed_gainsFirst(ordinaryGross, netCapitalGains, totalDeductions) ==
    LET ltcgTaxable == Max(0, netCapitalGains - totalDeductions)
        deductionLeftoverForOrdinary == Max(0, totalDeductions - netCapitalGains)
        ordinaryTaxable == Max(0, ordinaryGross - deductionLeftoverForOrdinary)
    IN  [ordinaryTaxable |-> ordinaryTaxable,
         deductionLeftoverForLTCG |-> deductionLeftoverForOrdinary,
         ltcgTaxable |-> ltcgTaxable]

allocateDeductionsDetailed(ordinaryGross, netCapitalGains, totalDeductions) ==
    LET ordinaryTaxable == Max(0, ordinaryGross - totalDeductions)
        deductionLeftoverForLTCG == Max(0, totalDeductions - ordinaryGross)
        ltcgTaxable == Max(0, netCapitalGains - deductionLeftoverForLTCG)
    IN  [ordinaryTaxable |-> ordinaryTaxable,
         deductionLeftoverForLTCG |-> deductionLeftoverForLTCG,
         ltcgTaxable |-> ltcgTaxable]

\* The loop that builds ordinaryTaxBrackets.  A row's range label is built
\* from bracket.min and bracket.max; the model keeps that pair.
\* Mutation: the bracket's upper bound is taken for its width.
taxableInBracketDetailed_upperBound(remainingIncome, bracket) ==
    Min(remainingIncome, bracket.max)

\* const taxableInBracket = Math.min(remainingIncome, bracket.max - bracket.min)
taxableInBracketDetailed(remainingIncome, bracket) ==
    Min(remainingIncome, bracket.max - bracket.min)

\* Mutation: the amount taxed in a bracket is not taken off the remainder.
remainingAfter_notReduced(remainingIncome, taxed) == remainingIncome

\* remainingIncome -= taxableInBracket
remainingAfter(remainingIncome, taxed) == remainingIncome - taxed

RECURSIVE detailLoop(_, _, _, _)
detailLoop(remainingIncome, brackets, i, rows) ==
    IF i > Len(brackets) THEN rows
    ELSE IF remainingIncome <= 0 THEN rows
    ELSE LET bracket == brackets[i]
             taxed == taxableInBracketDetailed(remainingIncome, bracket)
         IN  IF taxed > 0
             THEN detailLoop(remainingAfter(remainingIncome, taxed), brackets, i + 1,
                             Append(rows, [range |-> <<bracket.min, bracket.max>>,
                                           amount |-> taxed,
                                           rate |-> bracket.rate,
                                           tax |-> taxed * bracket.rate]))
             ELSE detailLoop(remainingIncome, brackets, i + 1, rows)

ordinaryTaxBrackets(ordinaryTaxable, brackets) ==
    detailLoop(ordinaryTaxable, brackets, 1, <<>>)

stackLTCGDetailed(ltcgTaxable, ordinaryTaxable, thresholds) ==
    LET zeroThreshold == thresholds.zero
        fifteenThreshold == thresholds.fifteen
        remaining0 == ltcgTaxable
        zeroPortion == Min(remaining0, Max(0, zeroThreshold - ordinaryTaxable))
        remaining1 == remaining0 - zeroPortion
        fifteenPortion ==
            Min(remaining1, Max(0, fifteenThreshold - ordinaryTaxable - zeroPortion))
        remaining2 == remaining1 - fifteenPortion
        twentyPortion == Max(0, remaining2)
    IN  [taxableCapitalGains |-> ltcgTaxable,
         zeroBracket |-> [amount |-> zeroPortion, tax |-> zeroPortion * 0],
         fifteenBracket |-> [amount |-> fifteenPortion,
                             tax |-> fifteenPortion * FIFTEEN_RATE],
         twentyBracket |-> [amount |-> twentyPortion,
                            tax |-> twentyPortion * TWENTY_RATE]]

niitDetailed(in, ordinaryGross, netCapitalGains, niitThreshold) ==
    LET magiApprox == ordinaryGross + netCapitalGains
        netInvestmentIncome == Max(0, in.ordinaryEarnings) + netCapitalGains
        niitExcess == Max(0, magiApprox - niitThreshold)
        niitAmount == NIIT_RATE * Min(netInvestmentIncome, niitExcess)
    IN  [magi |-> magiApprox,
         threshold |-> niitThreshold,
         excess |-> niitExcess,
         netInvestmentIncome |-> netInvestmentIncome,
         niitAmount |-> niitAmount]

\* const taxData = TAX_YEAR_DATA[inputs.taxYear]
taxDataOfDetailed(in) == Lookup(TAX_YEAR_DATA, in.taxYear)

calculateDetailedTaxBreakdown(in) ==
    The({ The({
        [income |-> [totalStandardIncome |-> g.totalStandardIncome,
                     longTermCapitalGains |-> in.longTermCapitalGains,
                     capitalLosses |-> in.capitalLosses],
         deductions |-> d,
         ordinaryTax |->
             [taxableOrdinaryIncome |-> a.ordinaryTaxable,
              brackets |-> ordinaryTaxBrackets(a.ordinaryTaxable,
                                               taxData.taxBrackets[in.filingStatus])],
         capitalGainsTax |->
             stackLTCGDetailed(a.ltcgTaxable, a.ordinaryTaxable,
                               taxData.ltcgThresholds[in.filingStatus]),
         niit |-> niitDetailed(in, g.ordinaryGross, g.netCapitalGains,
                               taxData.niitThresholds[in.filingStatus])]
        : a \in {allocateDeductionsDetailed(g.ordinaryGross, g.netCapitalGains,
                                            d.totalDeductions)} })
        : taxData \in {taxDataOfDetailed(in).value},
          d \in {deductionsDetailed(taxDataOfDetailed(in).value, in)},
          g \in {grossComponentsDetailed(in)} })

\* A call of calculateDetailedTaxBreakdown: it throws where calculateTax does,
\* the second time in its own for...of over the undefined bracket list.
calculateDetailedTaxBreakdownOutcome(in) ==
    LET taxData == taxDataOfDetailed(in)
    IN  IF ~taxData.defined THEN TypeError
        ELSE IF ~Lookup(taxData.value.taxBrackets, in.filingStatus).defined THEN TypeError
        ELSE Returned(calculateDetailedTaxBreakdown(in))

(***************************************************************************)
(* The 2024-only calculator: the same two functions over its own tables,   *)
(* with no tax year in the lookup.                                         *)
(***************************************************************************)
RECURSIVE bracketLoop2024(_, _, _, _)
bracketLoop2024(income, brackets, i, tax) ==
    IF i > Len(brackets) THEN tax
    ELSE IF income <= brackets[i].min THEN tax
    ELSE bracketLoop2024(income, brackets, i + 1,
                         tax + (Min(income, brackets[i].max) - brackets[i].min)
                                   * brackets[i].rate)

calculateTaxFromBrackets2024(income, brackets) == bracketLoop2024(income, brackets, 1, 0)

deductions2024(in) ==
    LET standardDeduction == STANDARD_DEDUCTIONS[in.filingStatus]
        seniorDeductionPerPerson == SENIOR_ADDITIONAL_DEDUCTION[in.filingStatus]
        seniorDeduction == in.seniors65Plus * seniorDeductionPerPerson
        totalDeductions == standardDeduction + seniorDeduction
    IN  [standardDeduction |-> standardDeduction,
         seniorDeduction |-> seniorDeduction,
         seniorDeductionPerPerson |-> seniorDeductionPerPerson,
         totalDeductions |-> totalDeductions]

grossComponents2024(in) ==
    LET ordinaryGross == in.ordinaryIncome + in.ordinaryEarnings
        netCapitalGains == Max(0, in.longTermCapitalGains - in.capitalLosses)
        totalIncome == in.ordinaryIncome + in.ordinaryEarnings
                         + in.longTermCapitalGains - in.capitalLosses
    IN  [ordinaryGross |-> ordinaryGross,
         netCapitalGains |-> netCapitalGains,
         totalIncome |-> totalIncome,
         totalStandardIncome |-> in.ordinaryIncome + in.ordinaryEarnings]

allocateDeductions2024(ordinaryGross, netCapitalGains, totalDeductions) ==
    LET ordinaryTaxable == Max(0, ordinaryGross - totalDeductions)
        deductionLeftoverForLTCG == Max(0, totalDeductions - ordinaryGross)
        ltcgTaxable == Max(0, netCapitalGains - deductionLeftoverForLTCG)
    IN  [ordinaryTaxable |-> ordinaryTaxable, ltcgTaxable |-> ltcgTaxable]

stackLTCG2024(ltcgTaxable, ordinaryTaxable, thresholds) ==
    LET zeroThreshold == thresholds.zero
        fifteenThreshold == thresholds.fifteen
        remaining0 == ltcgTaxable
        zeroPortion == Min(remaining0, Max(0, zeroThreshold - ordinaryTaxable))
        remaining1 == remaining0 - zeroPortion
        fifteenPortion ==
            Min(remaining1, Max(0, fifteenThreshold - ordinaryTaxable - zeroPortion))
        remaining2 == remaining1 - fifteenPortion
        twentyPortion == Max(0, remaining2)
    IN  [zeroPortion |-> zeroPortion,
         fifteenPortion |-> fifteenPortion,
         twentyPortion |-> twentyPortion]

niit2024(in, ordinaryGross, netCapitalGains) ==
    LET magiApprox == ordinaryGross + netCapitalGains
        netInvestmentIncome == Max(0, in.ordinaryEarnings) + netCapitalGains
        niitExcess == Max(0, magiApprox - NIIT_THRESHOLDS[in.filingStatus])
    IN  [magi |-> magiApprox,
         threshold |-> NIIT_THRESHOLDS[in.filingStatus],
         excess |-> niitExcess,
         netInvestmentIncome |-> netInvestmentIncome,
         niitAmount |-> NIIT_RATE * Min(netInvestmentIncome, niitExcess)]

\* calculateTax of the 2024-only calculator.
calculateTax2024(in) ==
    The({ The({ The({
        [standardDeduction |-> d.standardDeduction,
         seniorDeduction |-> d.seniorDeduction,
         totalDeductions |-> d.totalDeductions,
         taxableIncome |-> Max(0, g.totalIncome - d.totalDeductions),
         ordinaryTax |-> ordinaryTax,
         capitalGainsTax |-> capitalGainsTax,
         niitTax |-> n.niitAmount,
         totalTax |-> ordinaryTax + capitalGainsTax + n.niitAmount,
         effectiveRate |->
             IF g.totalIncome > 0
             THEN Ratio(ordinaryTax + capitalGainsTax + n.niitAmount, 10 * g.totalIncome)
             ELSE Ratio(0, 1)]
        : ordinaryTax \in {calculateTaxFromBrackets2024(a.ordinaryTaxable,
                                                        TAX_BRACKETS[in.filingStatus])},
          capitalGainsTax \in
              { p.zeroPortion * 0 + p.fifteenPortion * FIFTEEN_RATE
                    + p.twentyPortion * TWENTY_RATE
                : p \in {stackLTCG2024(a.ltcgTaxable, a.ordinaryTaxable,
                                       LTCG_THRESHOLDS[in.filingStatus])} } })
        : a \in {allocateDeductions2024(g.ordinaryGross, g.netCapitalGains,
                                        d.totalDeductions)},
          n \in {niit2024(in, g.ordinaryGross, g.netCapitalGains)} })
        : d \in {deductions2024(in)}, g \in {grossComponents2024(in)} })

RECURSIVE detailLoop2024(_, _, _, _)
detailLoop2024(remainingIncome, brackets, i, rows) ==
    IF i > Len(brackets) THEN rows
    ELSE IF remainingIncome <= 0 THEN rows
    ELSE LET bracket == brackets[i]
             taxed == Min(remainingIncome, bracket.max - bracket.min)
         IN  IF taxed > 0
             THEN detailLoop2024(remainingIncome - taxed, brackets, i + 1,
                                 Append(rows, [range |-> <<bracket.min, bracket.max>>,
                                               amount |-> taxed,
                                               rate |-> bracket.rate,
                                               tax |-> taxed * bracket.rate]))
             ELSE detailLoop2024(remainingIncome, brackets, i + 1, rows)

\* calculateDetailedTaxBreakdown of the 2024-only calculator.
calculateDetailedTaxBreakdown2024(in) ==
    The({ The({ The({
        [income |-> [totalStandardIncome |-> g.totalStandardIncome,
                     longTermCapitalGains |-> in.longTermCapitalGains,
                     capitalLosses |-> in.capitalLosses],
         deductions |-> d,
         ordinaryTax |->
             [taxableOrdinaryIncome |-> a.ordinaryTaxable,
              brackets |-> detailLoop2024(a.ordinaryTaxable,
                                          TAX_BRACKETS[in.filingStatus], 1, <<>>)],
         capitalGainsTax |->
             [taxableCapitalGains |-> a.ltcgTaxable,
              zeroBracket |-> [amount |-> p.zeroPortion, tax |-> p.zeroPortion * 0],
              fifteenBracket |-> [amount |-> p.fifteenPortion,
                                  tax |-> p.fifteenPortion * FIFTEEN_RATE],
              twentyBracket |-> [amount |-> p.twentyPortion,
                                 tax |-> p.twentyPortion * TWENTY_RATE]],
         niit |-> niit2024(in, g.ordinaryGross, g.netCapitalGains)]
        : p \in {stackLTCG2024(a.ltcgTaxable, a.ordinaryTaxable,
                               LTCG_THRESHOLDS[in.filingStatus])} })
        : a \in {allocateDeductions2024(g.ordinaryGross, g.netCapitalGains,
                                        d.totalDeductions)} })
        : d \in {deductions2024(in)}, g \in {grossComponents2024(in)} })

(***************************************************************************)
(* The inputs the engine is applied to.  The presentation layer keeps      *)
(* seniors65Plus within 0..2 for joint filers and 0..1 otherwise; the      *)
(* monetary inputs are non-negative whole dollars, probed around every     *)
(* threshold of the selected table.                                        *)
(***************************************************************************)
seniorsRange(filingStatus) ==
    IF filingStatus = "marriedFilingJointly" THEN 0 .. 2 ELSE 0 .. 1

Near(x) == { v \in (x - Radius) .. (x + Radius) : v >= 0 }

\* totalDeductions of the table selected by year, status and seniors.
ProbeDeductions(y, fs, n) ==
    TAX_YEAR_DATA[y].standardDeductions[fs]
        + n * TAX_YEAR_DATA[y].seniorAdditionalDeduction[fs]

\* Ordinary income that puts the taxable ordinary amount around each bracket edge,
\* and the approximate MAGI around the NIIT threshold.
OrdinaryIncomeProbes(y, fs, n) ==
    LET brackets == TAX_YEAR_DATA[y].taxBrackets[fs]
        th == TAX_YEAR_DATA[y].niitThresholds[fs]
    IN  {0} \cup UNION { Near(ProbeDeductions(y, fs, n) + brackets[i].min) :
                         i \in 1 .. Len(brackets) }
            \cup Near(th) \cup Near(th - EarningsProbe)

OrdinaryEarningsProbes == {0, EarningsProbe}

\* Gains that, with no ordinary income, put the taxable gains around each ceiling.
LongTermCapitalGainsProbes(y, fs, n) ==
    LET th == TAX_YEAR_DATA[y].ltcgThresholds[fs]
    IN  {0, GainsProbe} \cup Near(ProbeDeductions(y, fs, n) + th.zero)
                        \cup Near(ProbeDeductions(y, fs, n) + th.fifteen)

CapitalLossesProbes == {0, LossProbe}

\* The worked scenarios of the engine's description: a single filer with
\* 60000 of ordinary income, and joint filers with 100000 of ordinary income and
\* 50000 of long-term gains.
ReferenceScenarios ==
    { [taxYear |-> 2024, filingStatus |-> "single", seniors65Plus |-> 0,
       ordinaryIncome |-> 60000, ordinaryEarnings |-> 0,
       longTermCapitalGains |-> 0, capitalLosses |-> 0],
      [taxYear |-> 2024, filingStatus |-> "marriedFilingJointly", seniors65Plus |-> 0,
       ordinaryIncome |-> 100000, ordinaryEarnings |-> 0,
       longTermCapitalGains |-> 50000, capitalLosses |-> 0] }

TaxInputs ==
    ReferenceScenarios \cup
    UNION { UNION { UNION {
        [taxYear : {y}, filingStatus : {fs}, seniors65Plus : {n},
         ordinaryIncome : OrdinaryIncomeProbes(y, fs, n),
         ordinaryEarnings : OrdinaryEarningsProbes,
         longTermCapitalGains : LongTermCapitalGainsProbes(y, fs, n),
         capitalLosses : CapitalLossesProbes]
        : n \in seniorsRange(fs) } : fs \in FilingStatus } : y \in TaxYear }

\* Value of a result slot before the engine has filled it.
undefined == [undefined |-> TRUE]

\* localStorage.getItem of a key that was never set.
null == [null |-> TRUE]

\* No ScenarioManager has been constructed.
NoManager ==
    /\ scenarios = <<>>
    /\ localStorage = null
    /\ now = 1
    /\ notified = 0

\* No UIManager has been constructed.
NoUI ==
    /\ cards = <<>>
    /\ timers = <<>>
    /\ typed = <<>>
    /\ modalContainer = <<>>
    /\ bodyOverflow = ""

Init ==
    /\ inputs \in TaxInputs
    /\ locals = undefined
    /\ results = undefined
    /\ detailedBreakdown = undefined
    /\ pc = "inputs"
    /\ thrown = {}
    /\ NoManager
    /\ NoUI

\* scenario.results = calculateTax(scenario.inputs)
CalculateTax ==
    /\ pc = "inputs"
    /\ ~calculateTaxOutcome(inputs).threw
    /\ locals' = calculateTaxLocals(inputs)
    /\ results' = calculateTaxOutcome(inputs).value
    /\ pc' = "summary"
    /\ UNCHANGED <<inputs, detailedBreakdown, thrown, managerVars, uiVars>>

\* scenario.detailedBreakdown = calculateDetailedTaxBreakdown(scenario.inputs)
CalculateDetailedTaxBreakdown ==
    /\ pc = "summary"
    /\ ~calculateDetailedTaxBreakdownOutcome(inputs).threw
    /\ detailedBreakdown' = calculateDetailedTaxBreakdownOutcome(inputs).value
    /\ pc' = "done"
    /\ UNCHANGED <<inputs, locals, results, thrown, managerVars, uiVars>>

Next == CalculateTax \/ CalculateDetailedTaxBreakdown

Spec == Init /\ [][Next]_vars

(***************************************************************************)
(* The engine on any integers.  UIManager.isValidInteger accepts a leading *)
(* minus sign, and the engine itself checks nothing, so negative amounts   *)
(* and counts reach it.                                                    *)
(***************************************************************************)
SignedMoneyProbes == {0 - NegativeProbe, -1, 0, 1, PositiveProbe}

SignedSeniorsProbes == {0 - NegativeSeniorsProbe, -1, 0, 1, 2}

SignedTaxInputs ==
    [taxYear : TaxYear, filingStatus : FilingStatus,
     seniors65Plus : SignedSeniorsProbes,
     ordinaryIncome : SignedMoneyProbes,
     ordinaryEarnings : SignedMoneyProbes,
     longTermCapitalGains : SignedMoneyProbes,
     capitalLosses : SignedMoneyProbes]

InitSigned ==
    /\ inputs \in SignedTaxInputs
    /\ locals = undefined
    /\ results = undefined
    /\ detailedBreakdown = undefined
    /\ pc = "inputs"
    /\ thrown = {}
    /\ NoManager
    /\ NoUI

SpecSigned == InitSigned /\ [][Next]_vars

(***************************************************************************)
(* Both calculators on the same inputs of tax year 2024: the multi-year    *)
(* functions fill results and detailedBreakdown, then the 2024-only        *)
(* functions fill locals.                                                  *)
(***************************************************************************)
TaxInputs2024 == { in \in TaxInputs \cup SignedTaxInputs : in.taxYear = 2024 }

Init2024 ==
    /\ inputs \in TaxInputs2024
    /\ locals = undefined
    /\ results = undefined
    /\ detailedBreakdown = undefined
    /\ pc = "inputs"
    /\ thrown = {}
    /\ NoManager
    /\ NoUI

CalculateTax2024 ==
    /\ pc = "done"
    /\ locals' = [results |-> calculateTax2024(inputs)]
    /\ pc' = "summary2024"
    /\ UNCHANGED <<inputs, results, detailedBreakdown, thrown, managerVars, uiVars>>

CalculateDetailedTaxBreakdown2024 ==
    /\ pc = "summary2024"
    /\ locals' = [results |-> locals.results,
                  detailedBreakdown |-> calculateDetailedTaxBreakdown2024(inputs)]
    /\ pc' = "done2024"
    /\ UNCHANGED <<inputs, results, detailedBreakdown, thrown, managerVars, uiVars>>

Next2024 ==
    \/ CalculateTax
    \/ CalculateDetailedTaxBreakdown
    \/ CalculateTax2024
    \/ CalculateDetailedTaxBreakdown2024

Spec2024 == Init2024 /\ [][Next2024]_vars

(***************************************************************************)
(* The engine called twice, the second time on the same inputs with more   *)
(* ordinary income.  locals keeps the locals of the first call.            *)
(***************************************************************************)
\* The greater ordinary incomes the second call is made with.
RaisedIncomeProbes(in) ==
    { more \in OrdinaryIncomeProbes(in.taxYear, in.filingStatus, in.seniors65Plus)
                   \cup {in.ordinaryIncome + 1, in.ordinaryIncome + PositiveProbe} :
          more > in.ordinaryIncome }

RaiseOrdinaryIncome ==
    /\ pc = "summary"
    /\ \E more \in RaisedIncomeProbes(inputs) :
           /\ inputs' = [inputs EXCEPT !.ordinaryIncome = more]
           /\ results' = calculateTax([inputs EXCEPT !.ordinaryIncome = more])
    /\ pc' = "raised"
    /\ UNCHANGED <<locals, detailedBreakdown, thrown, managerVars, uiVars>>

NextRaised == CalculateTax \/ RaiseOrdinaryIncome

SpecRaised == Init /\ [][NextRaised]_vars

(***************************************************************************)
(* The engine on keys the table may not have.  Each function is called     *)
(* once; a call that throws leaves its result slot as it was and the       *)
(* caller goes on to the other function.                                   *)
(***************************************************************************)
UnknownFilingStatus == "headOfHousehold"

KeyedTaxInputs ==
    [taxYear : TaxYear \cup {UnknownTaxYear},
     filingStatus : FilingStatus \cup {UnknownFilingStatus},
     seniors65Plus : 0 .. 1,
     ordinaryIncome : {0, PositiveProbe},
     ordinaryEarnings : OrdinaryEarningsProbes,
     longTermCapitalGains : {0, GainsProbe},
     capitalLosses : CapitalLossesProbes]

InitKeyed ==
    /\ inputs \in KeyedTaxInputs
    /\ locals = undefined
    /\ results = undefined
    /\ detailedBreakdown = undefined
    /\ pc = "inputs"
    /\ thrown = {}
    /\ NoManager
    /\ NoUI

CalculateTaxThrows ==
    /\ pc = "inputs"
    /\ calculateTaxOutcome(inputs).threw
    /\ thrown' = thrown \cup {"calculateTax"}
    /\ pc' = "summary"
    /\ UNCHANGED <<inputs, locals, results, detailedBreakdown, managerVars, uiVars>>

CalculateDetailedTaxBreakdownThrows ==
    /\ pc = "summary"
    /\ calculateDetailedTaxBreakdownOutcome(inputs).threw
    /\ thrown' = thrown \cup {"calculateDetailedTaxBreakdown"}
    /\ pc' = "done"
    /\ UNCHANGED <<inputs, locals, results, detailedBreakdown, managerVars, uiVars>>

NextKeyed ==
    \/ CalculateTax
    \/ CalculateTaxThrows
    \/ CalculateDetailedTaxBreakdown
    \/ CalculateDetailedTaxBreakdownThrows

SpecKeyed == InitKeyed /\ [][NextKeyed]_vars

(***************************************************************************)
(* ScenarioManager.  A scenario is { id, name, inputs, results,            *)
(* detailedBreakdown }.  A string the code builds is the sequence of its   *)
(* pieces: an id is the sequence of the decimal digits of Date.now(), a    *)
(* name the sequence of the texts it was concatenated from.  An operation  *)
(* is described by its effect: the list it leaves, whether it reached      *)
(* saveToStorage() and notify(), and whether it ended in an exception.     *)
(***************************************************************************)
\* Longest list of scenarios, and latest clock value, that are explored.
MaxScenarios == 2

MaxNow == 2

\* Most " (Copy)" suffixes in the name of a scenario that is duplicated.
MaxCopies == 1

\* { ...a, ...b }
spread(a, b) ==
    [k \in DOMAIN a \cup DOMAIN b |-> IF k \in DOMAIN b THEN b[k] ELSE a[k]]

Digit == <<"0", "1", "2", "3", "4", "5", "6", "7", "8", "9">>

\* Number.prototype.toString of an integer, also what a template literal
\* writes for it.
RECURSIVE toString(_)
toString(n) ==
    IF n < 0 THEN <<"-">> \o toString(0 - n)
    ELSE IF n < 10 THEN <<Digit[n + 1]>>
    ELSE Append(toString(n \div 10), Digit[(n % 10) + 1])

\* JSON.stringify of a list of scenarios: a well-formed text that holds a copy
\* of every property (the values are strings, finite numbers, arrays, objects).
JSONstringify(value) == [wellFormed |-> TRUE, json |-> value]

SyntaxError == [threw |-> TRUE]

\* JSON.parse: the value of a well-formed text, a SyntaxError otherwise.
JSONparse(text) ==
    IF text.wellFormed THEN Returned(text.json) ELSE SyntaxError

\* Array.prototype.findIndex(s => s.id === id): the first match, or -1.
findIndex(list, id) ==
    IF \E i \in DOMAIN list : list[i].id = id
    THEN CHOOSE i \in DOMAIN list :
             /\ list[i].id = id
             /\ \A j \in DOMAIN list : list[j].id = id => i <= j
    ELSE -1

\* The inputs of createScenario.
DefaultInputs ==
    [taxYear |-> 2024, filingStatus |-> "single", ordinaryIncome |-> 0,
     ira401kDistributions |-> 0, pensionIncome |-> 0, socialSecurityIncome |-> 0,
     ordinaryEarnings |-> 0, longTermCapitalGains |-> 0, capitalLosses |-> 0,
     seniors65Plus |-> 0]

\* scenario.results = calculateTax(scenario.inputs)
\* scenario.detailedBreakdown = calculateDetailedTaxBreakdown(scenario.inputs)
\* The two assignments in order: an exception of the first call leaves both
\* properties as they were, one of the second call leaves the new results.
recompute(scenario) ==
    The({ IF r.threw THEN [threw |-> TRUE, value |-> scenario]
          ELSE IF d.threw
          THEN [threw |-> TRUE, value |-> spread(scenario, [results |-> r.value])]
          ELSE [threw |-> FALSE,
                value |-> spread(scenario, [results |-> r.value,
                                            detailedBreakdown |-> d.value])]
          : r \in {calculateTaxOutcome(scenario.inputs)},
            d \in {calculateDetailedTaxBreakdownOutcome(scenario.inputs)} })

\* The body of updateScenario and of updateScenarioSilently on the scenario
\* found: the name, then scenario.inputs = { ...scenario.inputs,
\* ...updates.inputs }, then the two engine calls.
applyUpdates(scenario, updates) ==
    LET named == IF "name" \in DOMAIN updates
                 THEN spread(scenario, [name |-> updates.name])
                 ELSE scenario
    IN  IF "inputs" \in DOMAIN updates
        THEN recompute(spread(named,
                 [inputs |-> spread(named.inputs, updates.inputs)]))
        ELSE [threw |-> FALSE, value |-> named]

\* An operation that found nothing to do and returned.
Untouched(list) ==
    [scenarios |-> list, saved |-> FALSE, notify |-> 0, threw |-> FALSE]

createScenario(list, name, time) ==
    [scenarios |-> Append(list, recompute([id |-> toString(time), name |-> name,
                                           inputs |-> DefaultInputs]).value),
     saved |-> TRUE, notify |-> 1, threw |-> FALSE]

duplicateScenario(list, id, time) ==
    LET i == findIndex(list, id)
    IN  IF i = -1 THEN Untouched(list)
        ELSE [scenarios |->
                  Append(list, spread(list[i],
                      [id |-> toString(time),
                       name |-> Append(list[i].name, " (Copy)")])),
              saved |-> TRUE, notify |-> 1, threw |-> FALSE]

updateScenario(list, id, updates) ==
    LET i == findIndex(list, id)
    IN  IF i = -1 THEN Untouched(list)
        ELSE The({ [scenarios |-> [list EXCEPT ![i] = u.value],
                    saved |-> ~u.threw,
                    notify |-> IF u.threw THEN 0 ELSE 1,
                    threw |-> u.threw]
                   : u \in {applyUpdates(list[i], updates)} })

\* Mutation: the silent update does not save.
updateScenarioSilently_notSaved(list, id, updates) ==
    LET i == findIndex(list, id)
    IN  IF i = -1 THEN Untouched(list)
        ELSE The({ [scenarios |-> [list EXCEPT ![i] = u.value],
                    saved |-> FALSE,
                    notify |-> 0,
                    threw |-> u.threw]
                   : u \in {applyUpdates(list[i], updates)} })

updateScenarioSilently(list, id, updates) ==
    LET i == findIndex(list, id)
    IN  IF i = -1 THEN Untouched(list)
        ELSE The({ [scenarios |-> [list EXCEPT ![i] = u.value],
                    saved |-> ~u.threw,
                    notify |-> 0,
                    threw |-> u.threw]
                   : u \in {applyUpdates(list[i], updates)} })

\* this.scenarios.splice(index, 1)
splice(list, index) ==
    [k \in 1 .. (Len(list) - 1) |-> IF k < index THEN list[k] ELSE list[k + 1]]

\* Mutation: deleteScenario calls notify() before the test of the index.
deleteScenario_notifiesFirst(list, id) ==
    LET i == findIndex(list, id)
    IN  IF i = -1 THEN [Untouched(list) EXCEPT !.notify = 1]
        ELSE [scenarios |-> splice(list, i),
              saved |-> TRUE, notify |-> 1, threw |-> FALSE]

deleteScenario(list, id) ==
    LET i == findIndex(list, id)
    IN  IF i = -1 THEN Untouched(list)
        ELSE [scenarios |-> splice(list, i),
              saved |-> TRUE, notify |-> 1, threw |-> FALSE]

\* Mutation: a missing pensionIncome is left missing.
migrate_pensionKept(in) ==
    LET a == IF ~Lookup(in, "taxYear").defined \/ in.taxYear = 0
             THEN spread(in, [taxYear |-> 2024]) ELSE in
        b == IF ~Lookup(a, "ira401kDistributions").defined
             THEN spread(a, [ira401kDistributions |-> 0]) ELSE a
    IN  IF ~Lookup(b, "socialSecurityIncome").defined
        THEN spread(b, [socialSecurityIncome |-> 0]) ELSE b

\* The backward-compatibility defaults of loadFromStorage.
migrate(in) ==
    LET a == IF ~Lookup(in, "taxYear").defined \/ in.taxYear = 0
             THEN spread(in, [taxYear |-> 2024]) ELSE in
        b == IF ~Lookup(a, "ira401kDistributions").defined
             THEN spread(a, [ira401kDistributions |-> 0]) ELSE a
        c == IF ~Lookup(b, "pensionIncome").defined
             THEN spread(b, [pensionIncome |-> 0]) ELSE b
    IN  IF ~Lookup(c, "socialSecurityIncome").defined
        THEN spread(c, [socialSecurityIncome |-> 0]) ELSE c

\* One pass of the forEach of loadFromStorage.
loadScenario(scenario) ==
    IF ~Lookup(scenario, "inputs").defined THEN [threw |-> TRUE, value |-> scenario]
    ELSE recompute(spread(scenario, [inputs |-> migrate(scenario.inputs)]))

\* loadFromStorage: nothing stored leaves the empty list; an exception of
\* JSON.parse or of the engine is caught and the list is emptied.
loadFromStorage(stored) ==
    IF stored = null THEN Untouched(<<>>)
    ELSE LET parsed == JSONparse(stored)
         IN  IF parsed.threw THEN Untouched(<<>>)
             ELSE The({ IF \E i \in DOMAIN loaded : loaded[i].threw
                        THEN Untouched(<<>>)
                        ELSE [scenarios |-> [i \in DOMAIN loaded |-> loaded[i].value],
                              saved |-> TRUE, notify |-> 0, threw |-> FALSE]
                        : loaded \in {[i \in DOMAIN parsed.value |->
                                          loadScenario(parsed.value[i])]} })

\* The manager after an operation with effect e.  An exception of an
\* operation is the engine's: no operation catches it, save for the load.
Effect(e) ==
    /\ scenarios' = e.scenarios
    /\ localStorage' = IF e.saved THEN JSONstringify(e.scenarios) ELSE localStorage
    /\ notified' = e.notify
    /\ thrown' = IF e.threw THEN {"calculateTax"} ELSE {}

\* What an earlier session may have left under 'taxis-scenarios': nothing, a
\* text that does not parse, an empty list, a scenario of the schema without
\* taxYear and the later income fields, a scenario whose filing status no table
\* has.
LegacyScenario ==
    [id |-> toString(0), name |-> <<"Retirement">>,
     inputs |-> [filingStatus |-> "marriedFilingJointly", ordinaryIncome |-> 60000,
                 ordinaryEarnings |-> 0, longTermCapitalGains |-> 50000,
                 capitalLosses |-> 0, seniors65Plus |-> 2]]

ForeignScenario ==
    [id |-> toString(0), name |-> <<"Household">>,
     inputs |-> spread(DefaultInputs, [filingStatus |-> UnknownFilingStatus])]

StoredValues ==
    { null,
      [wellFormed |-> FALSE],
      JSONstringify(<<>>),
      JSONstringify(<<LegacyScenario>>),
      JSONstringify(<<ForeignScenario>>) }

\* The ids and the updates the operations are called with.
IdProbes == { toString(t) : t \in 0 .. MaxNow }

UpdateProbes ==
    { [name |-> <<"Plan B">>, inputs |-> [ordinaryIncome |-> 60000]],
      [inputs |-> [taxYear |-> UnknownTaxYear]] }

InitManager ==
    /\ inputs = undefined
    /\ locals = undefined
    /\ results = undefined
    /\ detailedBreakdown = undefined
    /\ pc = "boot"
    /\ thrown = {}
    /\ scenarios = <<>>
    /\ localStorage \in StoredValues
    /\ now = 1
    /\ notified = 0
    /\ NoUI

\* new ScenarioManager(): at page load, and at any reload.
Constructor ==
    /\ \E e \in {loadFromStorage(localStorage)} : Effect(e)
    /\ pc' = "ready"
    /\ UNCHANGED <<engineVars, now, uiVars>>

\* Time passes.
Tick ==
    /\ pc = "ready"
    /\ now < MaxNow
    /\ now' = now + 1
    /\ UNCHANGED <<engineVars, pc, thrown, scenarios, localStorage, notified, uiVars>>

CreateScenario ==
    /\ pc = "ready"
    /\ Len(scenarios) < MaxScenarios
    /\ \E e \in {createScenario(scenarios, <<"New Scenario">>, now)} : Effect(e)
    /\ UNCHANGED <<engineVars, pc, now, uiVars>>

\* The call duplicateScenario(id).
DuplicateScenarioCall(id) ==
    /\ pc = "ready"
    /\ Len(scenarios) < MaxScenarios
    /\ findIndex(scenarios, id) # -1 =>
           Len(scenarios[findIndex(scenarios, id)].name) <= MaxCopies
    /\ \E e \in {duplicateScenario(scenarios, id, now)} : Effect(e)
    /\ UNCHANGED <<engineVars, pc, now, uiVars>>

DuplicateScenario == \E id \in IdProbes : DuplicateScenarioCall(id)

\* The call updateScenario(id, updates).
UpdateScenarioCall(id, updates) ==
    /\ pc = "ready"
    /\ \E e \in {updateScenario(scenarios, id, updates)} : Effect(e)
    /\ UNCHANGED <<engineVars, pc, now, uiVars>>

UpdateScenario ==
    \E id \in IdProbes, updates \in UpdateProbes : UpdateScenarioCall(id, updates)

\* The call updateScenarioSilently(id, updates).
UpdateScenarioSilentlyCall(id, updates) ==
    /\ pc = "ready"
    /\ \E e \in {updateScenarioSilently(scenarios, id, updates)} : Effect(e)
    /\ UNCHANGED <<engineVars, pc, now, uiVars>>

UpdateScenarioSilently ==
    \E id \in IdProbes, updates \in UpdateProbes :
        UpdateScenarioSilentlyCall(id, updates)

\* The call deleteScenario(id).
DeleteScenarioCall(id) ==
    /\ pc = "ready"
    /\ \E e \in {deleteScenario(scenarios, id)} : Effect(e)
    /\ UNCHANGED <<engineVars, pc, now, uiVars>>

DeleteScenario == \E id \in IdProbes : DeleteScenarioCall(id)

NextManager ==
    \/ Constructor
    \/ Tick
    \/ CreateScenario
    \/ DuplicateScenario
    \/ UpdateScenario
    \/ UpdateScenarioSilently
    \/ DeleteScenario

SpecManager == InitManager /\ [][NextManager]_vars

(***************************************************************************)
(* ScenarioManager with object identity.  A scenario's inputs, results and *)
(* detailedBreakdown are objects: each is kept as its address and its      *)
(* properties, so two scenarios that hold the same object hold the same    *)
(* address.  An object literal, a spread and a return value of the engine  *)
(* are new objects; JSON.stringify writes the properties and no address.   *)
(***************************************************************************)
Addresses == 1 .. (3 * MaxScenarios + 3)

Object(address, properties) == [address |-> address, properties |-> properties]

\* The addresses of the objects the scenarios of the list hold.
held(list) ==
    UNION { {list[i].inputs.address, list[i].results.address,
             list[i].detailedBreakdown.address} : i \in DOMAIN list }

\* The addresses of the next three objects that are created.
allocate(list) ==
    The({ The({ The({ <<a, b, c>>
        : c \in {CHOOSE x \in (Addresses \ held(list)) \ {a, b} :
                     \A y \in (Addresses \ held(list)) \ {a, b} : x <= y} })
        : b \in {CHOOSE x \in (Addresses \ held(list)) \ {a} :
                     \A y \in (Addresses \ held(list)) \ {a} : x <= y} })
        : a \in {CHOOSE x \in Addresses \ held(list) :
                     \A y \in Addresses \ held(list) : x <= y} })

\* What JSON.stringify writes for the list: every scenario with the properties
\* of its objects.
plain(list) ==
    [i \in DOMAIN list |->
        [id |-> list[i].id, name |-> list[i].name,
         inputs |-> list[i].inputs.properties,
         results |-> list[i].results.properties,
         detailedBreakdown |-> list[i].detailedBreakdown.properties]]

\* scenario.results = calculateTax(scenario.inputs)
\* scenario.detailedBreakdown = calculateDetailedTaxBreakdown(scenario.inputs)
\* with the results at address b and the breakdown at address c.
recomputeObjects(scenario, b, c) ==
    The({ IF r.threw THEN [threw |-> TRUE, value |-> scenario]
          ELSE IF d.threw
          THEN [threw |-> TRUE,
                value |-> spread(scenario, [results |-> Object(b, r.value)])]
          ELSE [threw |-> FALSE,
                value |-> spread(scenario, [results |-> Object(b, r.value),
                                            detailedBreakdown |-> Object(c, d.value)])]
          : r \in {calculateTaxOutcome(scenario.inputs.properties)},
            d \in {calculateDetailedTaxBreakdownOutcome(scenario.inputs.properties)} })

createScenarioObjects(list, name, time) ==
    The({ [scenarios |->
               Append(list, recomputeObjects(
                   [id |-> toString(time), name |-> name,
                    inputs |-> Object(new[1], DefaultInputs)], new[2], new[3]).value),
           saved |-> TRUE, notify |-> 1, threw |-> FALSE]
          : new \in {allocate(list)} })

\* const duplicate = { ...original, id, name }: the duplicate holds the
\* objects the original holds.
duplicateScenarioObjects(list, id, time) ==
    LET i == findIndex(list, id)
    IN  IF i = -1 THEN Untouched(list)
        ELSE [scenarios |->
                  Append(list, spread(list[i],
                      [id |-> toString(time),
                       name |-> Append(list[i].name, " (Copy)")])),
              saved |-> TRUE, notify |-> 1, threw |-> FALSE]

\* Mutation: the updates are written into the inputs object the scenario
\* holds, Object.assign(scenario.inputs, updates.inputs): every scenario that
\* holds the object sees them.
assignInputs_inPlace(list, i, updates, a) ==
    [j \in DOMAIN list |->
        IF list[j].inputs.address = list[i].inputs.address
        THEN spread(list[j],
                 [inputs |-> Object(list[i].inputs.address,
                                    spread(list[i].inputs.properties, updates.inputs))])
        ELSE list[j]]

\* scenario.inputs = { ...scenario.inputs, ...updates.inputs }: a new object at
\* address a, held by the scenario at index i alone.
assignInputs(list, i, updates, a) ==
    [list EXCEPT ![i] =
        spread(list[i],
            [inputs |-> Object(a, spread(list[i].inputs.properties, updates.inputs))])]

\* The body of updateScenario and of updateScenarioSilently on the scenario at
\* index i; the list it leaves and whether the engine threw.
applyUpdatesObjects(list, i, updates) ==
    The({ The({ IF "inputs" \in DOMAIN updates
                THEN The({ [threw |-> u.threw,
                            value |-> [assigned EXCEPT ![i] = u.value]]
                           : u \in {recomputeObjects(assigned[i], new[2], new[3])} })
                ELSE [threw |-> FALSE, value |-> named]
        : assigned \in {IF "inputs" \in DOMAIN updates
                        THEN assignInputs(named, i, updates, new[1])
                        ELSE named} })
        : named \in {IF "name" \in DOMAIN updates
                     THEN [list EXCEPT ![i] = spread(list[i], [name |-> updates.name])]
                     ELSE list},
          new \in {allocate(list)} })

updateScenarioObjects(list, id, updates) ==
    LET i == findIndex(list, id)
    IN  IF i = -1 THEN Untouched(list)
        ELSE The({ [scenarios |-> u.value,
                    saved |-> ~u.threw,
                    notify |-> IF u.threw THEN 0 ELSE 1,
                    threw |-> u.threw]
                   : u \in {applyUpdatesObjects(list, i, updates)} })

updateScenarioSilentlyObjects(list, id, updates) ==
    LET i == findIndex(list, id)
    IN  IF i = -1 THEN Untouched(list)
        ELSE The({ [scenarios |-> u.value,
                    saved |-> ~u.threw,
                    notify |-> 0,
                    threw |-> u.threw]
                   : u \in {applyUpdatesObjects(list, i, updates)} })

\* The manager after an operation with effect e on a list of scenarios that
\* hold objects.
EffectObjects(e) ==
    /\ scenarios' = e.scenarios
    /\ localStorage' = IF e.saved THEN JSONstringify(plain(e.scenarios)) ELSE localStorage
    /\ notified' = e.notify
    /\ thrown' = IF e.threw THEN {"calculateTax"} ELSE {}

\* A manager constructed with nothing stored.
InitObjects ==
    /\ inputs = undefined
    /\ locals = undefined
    /\ results = undefined
    /\ detailedBreakdown = undefined
    /\ pc = "ready"
    /\ thrown = {}
    /\ scenarios = <<>>
    /\ localStorage = null
    /\ now = 1
    /\ notified = 0
    /\ NoUI

CreateScenarioObjects ==
    /\ pc = "ready"
    /\ Len(scenarios) < MaxScenarios
    /\ \E e \in {createScenarioObjects(scenarios, <<"New Scenario">>, now)} :
           EffectObjects(e)
    /\ UNCHANGED <<engineVars, pc, now, uiVars>>

DuplicateScenarioObjects ==
    /\ pc = "ready"
    /\ Len(scenarios) < MaxScenarios
    /\ \E id \in IdProbes :
           /\ findIndex(scenarios, id) # -1 =>
                  Len(scenarios[findIndex(scenarios, id)].name) <= MaxCopies
           /\ \E e \in {duplicateScenarioObjects(scenarios, id, now)} : EffectObjects(e)
    /\ UNCHANGED <<engineVars, pc, now, uiVars>>

\* The call updateScenario(id, updates).
UpdateScenarioObjectsCall(id, updates) ==
    /\ pc = "ready"
    /\ \E e \in {updateScenarioObjects(scenarios, id, updates)} : EffectObjects(e)
    /\ UNCHANGED <<engineVars, pc, now, uiVars>>

UpdateScenarioObjects ==
    \E id \in IdProbes, updates \in UpdateProbes : UpdateScenarioObjectsCall(id, updates)

\* The call updateScenarioSilently(id, updates).
UpdateScenarioSilentlyObjectsCall(id, updates) ==
    /\ pc = "ready"
    /\ \E e \in {updateScenarioSilentlyObjects(scenarios, id, updates)} :
           EffectObjects(e)
    /\ UNCHANGED <<engineVars, pc, now, uiVars>>

UpdateScenarioSilentlyObjects ==
    \E id \in IdProbes, updates \in UpdateProbes :
        UpdateScenarioSilentlyObjectsCall(id, updates)

\* The call deleteScenario(id).
DeleteScenarioObjectsCall(id) ==
    /\ pc = "ready"
    /\ \E e \in {deleteScenario(scenarios, id)} : EffectObjects(e)
    /\ UNCHANGED <<engineVars, pc, now, uiVars>>

DeleteScenarioObjects == \E id \in IdProbes : DeleteScenarioObjectsCall(id)

NextObjects ==
    \/ Tick
    \/ CreateScenarioObjects
    \/ DuplicateScenarioObjects
    \/ UpdateScenarioObjects
    \/ UpdateScenarioSilentlyObjects
    \/ DeleteScenarioObjects

SpecObjects == InitObjects /\ [][NextObjects]_vars

(***************************************************************************)
(* UIManager.  A text is the sequence of its characters.  A card is what   *)
(* createScenarioCard renders of a scenario: the data-id, the name input,  *)
(* the tax-table select, the ordinary-income text input, the 65+ control   *)
(* (a number input for joint filers, a checkbox otherwise) and the results *)
(* grid.  The other text inputs have the handler of the ordinary-income    *)
(* input.  A timer is { live, card, id, field, value }: the element it     *)
(* belongs to is in the document (live, in the card at that position) or   *)
(* was replaced by a later render, and id, field and value are what its    *)
(* callback reads from the element and from its closure.  All timers have  *)
(* the same delay, so they fire in the order they were set.                *)
(***************************************************************************)
\* The cards, counted from the top, that the user edits; the most timers that
\* are pending at once.
MaxEdited == 1

MaxTimers == 2

\* String.prototype.trim
RECURSIVE trimStart(_)
trimStart(value) ==
    IF value # <<>> /\ Head(value) = " " THEN trimStart(Tail(value)) ELSE value

RECURSIVE trimEnd(_)
trimEnd(value) ==
    IF value # <<>> /\ value[Len(value)] = " "
    THEN trimEnd(SubSeq(value, 1, Len(value) - 1)) ELSE value

trim(value) == trimEnd(trimStart(value))

IsDigit(c) == \E d \in DOMAIN Digit : Digit[d] = c

\* value === '' || /^-?\d+$/.test(value.trim())
isValidInteger(value) ==
    IF value = <<>> THEN TRUE
    ELSE LET trimmed == trim(value)
             digits == IF trimmed # <<>> /\ Head(trimmed) = "-"
                       THEN Tail(trimmed) ELSE trimmed
         IN  /\ digits # <<>>
             /\ \A i \in DOMAIN digits : IsDigit(digits[i])

DigitValue(c) == (CHOOSE d \in DOMAIN Digit : Digit[d] = c) - 1

RECURSIVE digitsValue(_)
digitsValue(digits) ==
    IF digits = <<>> THEN 0
    ELSE 10 * digitsValue(SubSeq(digits, 1, Len(digits) - 1))
         + DigitValue(digits[Len(digits)])

\* parseInt(text, 10) of an optional minus sign and digits.
parseInt(text) ==
    IF Head(text) = "-" THEN 0 - digitsValue(Tail(text)) ELSE digitsValue(text)

parseIntegerValue(value) ==
    LET trimmed == trim(value)
    IN  IF trimmed = <<>> THEN 0 ELSE parseInt(trimmed)

renderSeniorsField(scenario) ==
    IF scenario.inputs.filingStatus = "marriedFilingJointly"
    THEN [type |-> "number", value |-> toString(scenario.inputs.seniors65Plus)]
    ELSE [type |-> "checkbox", checked |-> scenario.inputs.seniors65Plus > 0]

\* The selected option of the tax-table select: its value is
\* `${filingStatus}-${taxYear}`, kept as the two pieces split('-') gives.
createScenarioCard(scenario) ==
    [id |-> scenario.id,
     name |-> scenario.name,
     taxTable |-> [filingStatus |-> scenario.inputs.filingStatus,
                   taxYearStr |-> toString(scenario.inputs.taxYear)],
     ordinaryIncome |-> toString(scenario.inputs.ordinaryIncome),
     seniors65Plus |-> renderSeniorsField(scenario),
     results |-> scenario.results]

\* render(): the container is emptied and a card is made for every scenario.
render(list) == [i \in DOMAIN list |-> createScenarioCard(list[i])]

\* The timers after a render: their elements have left the document, the
\* timers stay pending.
orphaned(pending) ==
    [k \in DOMAIN pending |-> [pending[k] EXCEPT !.live = FALSE, !.card = 0]]

\* clearTimeout(debounceTimeout) in the closure of the element.
clearTimeout(pending, card, field) ==
    SelectSeq(pending, LAMBDA t : ~(t.live /\ t.card = card /\ t.field = field))

\* updateResultsDisplay: the results grid of the first card with the data-id.
updateResultsDisplay(dom, list, id) ==
    LET i == findIndex(list, id)
        c == findIndex(dom, id)
    IN  IF i = -1 \/ c = -1 THEN dom
        ELSE [dom EXCEPT ![c].results = list[i].results]

\* What was typed into a field of a scenario: the value of the last input
\* event, and the last value of an input event that was a valid integer.
NothingTyped == [any |-> FALSE, latest |-> <<>>, anyValid |-> FALSE, valid |-> 0]

track(list, history) ==
    [id \in { list[i].id : i \in DOMAIN list } |->
        IF id \in DOMAIN history THEN history[id]
        ELSE [ordinaryIncome |-> NothingTyped, seniors65Plus |-> NothingTyped]]

afterInput(entry, value) ==
    [any |-> TRUE, latest |-> value,
     anyValid |-> entry.anyValid \/ isValidInteger(value),
     valid |-> IF isValidInteger(value) THEN parseIntegerValue(value)
               ELSE entry.valid]

\* The manager and the document after an operation with effect e that was
\* called from a handler: the listener of the UIManager is render(); dom is the
\* document if no render follows.
EffectUI(e, dom) ==
    /\ Effect(e)
    /\ cards' = IF e.notify > 0 THEN render(e.scenarios) ELSE dom
    /\ timers' = IF e.notify > 0 THEN orphaned(timers) ELSE timers
    /\ typed' = track(e.scenarios, typed)

\* What the user types: two valid amounts and a text that is not an integer;
\* a count beyond the range of the number input.
TextProbes(field) ==
    IF field = "ordinaryIncome" THEN { <<"7">>, <<"9">>, <<"7", "x">> }
    ELSE { <<"7">> }

\* The options of the tax-table select, and the ones the user selects.
TaxTableOptions ==
    { [filingStatus |-> fs, taxYearStr |-> toString(y)] :
          fs \in FilingStatus, y \in TaxYear }

TaxTableProbes ==
    { option \in TaxTableOptions :
          /\ option.filingStatus \in {"single", "marriedFilingJointly"}
          /\ option.taxYearStr = toString(2024) }

\* What the storage holds when the page loads: nothing, or a scenario of an
\* earlier version.
StoredProbes == { null, JSONstringify(<<LegacyScenario>>) }

\* The text and number inputs of a card.
TextFields(card) ==
    IF card.seniors65Plus.type = "number"
    THEN {"ordinaryIncome", "seniors65Plus"} ELSE {"ordinaryIncome"}

fieldText(card, field) ==
    IF field = "ordinaryIncome" THEN card.ordinaryIncome
    ELSE card.seniors65Plus.value

withText(dom, c, field, value) ==
    IF field = "ordinaryIncome" THEN [dom EXCEPT ![c].ordinaryIncome = value]
    ELSE [dom EXCEPT ![c].seniors65Plus.value = value]

Edited == 1 .. Min(MaxEdited, Len(cards))

InitUI ==
    /\ inputs = undefined
    /\ locals = undefined
    /\ results = undefined
    /\ detailedBreakdown = undefined
    /\ pc = "boot"
    /\ thrown = {}
    /\ scenarios = <<>>
    /\ localStorage \in StoredProbes
    /\ now = 1
    /\ notified = 0
    /\ NoUI

\* DOMContentLoaded: the manager loads, the UIManager renders, and a sample
\* scenario is created if there is none.
DOMContentLoaded ==
    /\ pc = "boot"
    /\ \E loaded \in {loadFromStorage(localStorage)} :
           \E e \in {IF Len(loaded.scenarios) = 0
                     THEN createScenario(loaded.scenarios, <<"Sample Scenario">>, now)
                     ELSE loaded} :
               /\ Effect(e)
               /\ cards' = render(e.scenarios)
               /\ typed' = track(e.scenarios, typed)
    /\ pc' = "ready"
    /\ UNCHANGED <<engineVars, modalVars, now, timers>>

\* click on Add Scenario, a millisecond or more after the last creation.
ClickAddScenario ==
    /\ pc = "ready"
    /\ Len(scenarios) < MaxScenarios
    /\ now < MaxNow
    /\ now' = now + 1
    /\ \E e \in {createScenario(scenarios, <<"New Scenario">>, now + 1)} :
           EffectUI(e, cards)
    /\ UNCHANGED <<engineVars, modalVars, pc>>

\* click on Duplicate
ClickDuplicate ==
    /\ pc = "ready"
    /\ Len(scenarios) < MaxScenarios
    /\ now < MaxNow
    /\ now' = now + 1
    /\ \E c \in DOMAIN cards :
           /\ Len(cards[c].name) <= MaxCopies
           /\ \E e \in {duplicateScenario(scenarios, cards[c].id, now + 1)} :
                  EffectUI(e, cards)
    /\ UNCHANGED <<engineVars, modalVars, pc>>

\* click on Delete, confirmed
ClickDelete ==
    /\ pc = "ready"
    /\ \E c \in DOMAIN cards :
           \E e \in {deleteScenario(scenarios, cards[c].id)} : EffectUI(e, cards)
    /\ UNCHANGED <<engineVars, modalVars, pc, now>>

\* blur of the name input, with the name as it was rendered (typing a name is
\* left out: the handler saves and renders whatever the name is).
BlurName ==
    /\ pc = "ready"
    /\ \E c \in Edited :
           \E e \in {updateScenario(scenarios, cards[c].id, [name |-> cards[c].name])} :
               EffectUI(e, cards)
    /\ UNCHANGED <<engineVars, modalVars, pc, now>>

\* input event of a text or number input: the pending timer of the element is
\* cleared and a new one is set with the value of the element.
InputText ==
    /\ pc = "ready"
    /\ \E c \in Edited :
           \E field \in TextFields(cards[c]) :
               \E value \in TextProbes(field) :
                   /\ value # fieldText(cards[c], field)
                   /\ Len(clearTimeout(timers, c, field)) < MaxTimers
                   /\ cards' = withText(cards, c, field, value)
                   /\ timers' = Append(clearTimeout(timers, c, field),
                                       [live |-> TRUE, card |-> c, id |-> cards[c].id,
                                        field |-> field, value |-> value])
                   /\ typed' = [typed EXCEPT ![cards[c].id][field] =
                                    afterInput(typed[cards[c].id][field], value)]
    /\ UNCHANGED <<engineVars, modalVars, pc, thrown, managerVars>>

\* The oldest timer fires: the callback of the debounce.
TimerFires ==
    /\ pc = "ready"
    /\ timers # <<>>
    /\ timers' = Tail(timers)
    /\ \E t \in {Head(timers)} :
           IF ~isValidInteger(t.value)
           THEN UNCHANGED <<thrown, managerVars, cards, typed>>
           ELSE \E parsedValue \in {parseIntegerValue(t.value)} :
                    \E i \in {findIndex(scenarios, t.id)} :
                        IF i # -1 /\ scenarios[i].inputs[t.field] = parsedValue
                        THEN UNCHANGED <<thrown, managerVars, cards, typed>>
                        ELSE \E e \in {updateScenarioSilently(scenarios, t.id,
                                          [inputs |-> [k \in {t.field} |-> parsedValue]])} :
                                 /\ Effect(e)
                                 /\ cards' = updateResultsDisplay(cards, e.scenarios, t.id)
                                 /\ typed' = track(e.scenarios, typed)
                                 /\ UNCHANGED now
    /\ UNCHANGED <<engineVars, modalVars, pc>>

\* change event of the 65+ checkbox
ChangeCheckbox ==
    /\ pc = "ready"
    /\ \E c \in Edited :
           /\ cards[c].seniors65Plus.type = "checkbox"
           /\ \E checked \in {~cards[c].seniors65Plus.checked} :
                  \E value \in {IF checked THEN 1 ELSE 0} :
                      \E i \in {findIndex(scenarios, cards[c].id)} :
                          IF i # -1 /\ scenarios[i].inputs.seniors65Plus = value
                          THEN /\ cards' = [cards EXCEPT ![c].seniors65Plus.checked = checked]
                               /\ UNCHANGED <<thrown, scenarios, localStorage, notified,
                                              timers, typed>>
                          ELSE \E e \in {updateScenario(scenarios, cards[c].id,
                                            [inputs |-> [seniors65Plus |-> value]])} :
                                   EffectUI(e, [cards EXCEPT ![c].seniors65Plus.checked = checked])
    /\ UNCHANGED <<engineVars, modalVars, pc, now>>

\* change event of the tax-table select.  (Its input event, which comes first,
\* sets a timer for the option text; that text is no integer and the timer
\* does nothing.)
ChangeTaxTable ==
    /\ pc = "ready"
    /\ \E c \in Edited :
           \E option \in TaxTableProbes \ {cards[c].taxTable} :
               \E taxYear \in {parseInt(option.taxYearStr)} :
                   \E i \in {findIndex(scenarios, cards[c].id)} :
                       IF /\ i # -1
                          /\ option.filingStatus = scenarios[i].inputs.filingStatus
                          /\ taxYear = scenarios[i].inputs.taxYear
                       THEN /\ cards' = [cards EXCEPT ![c].taxTable = option]
                            /\ UNCHANGED <<thrown, scenarios, localStorage, notified,
                                           timers, typed>>
                       ELSE \E e \in {updateScenario(scenarios, cards[c].id,
                                         [inputs |-> [filingStatus |-> option.filingStatus,
                                                      taxYear |-> taxYear]])} :
                                EffectUI(e, [cards EXCEPT ![c].taxTable = option])
    /\ UNCHANGED <<engineVars, modalVars, pc, now>>

NextUI ==
    \/ DOMContentLoaded
    \/ ClickAddScenario
    \/ ClickDuplicate
    \/ ClickDelete
    \/ BlurName
    \/ InputText
    \/ TimerFires
    \/ ChangeCheckbox
    \/ ChangeTaxTable

SpecUI == InitUI /\ [][NextUI]_vars

(***************************************************************************)
(* The detail modal.  The one modal container holds the modal that was     *)
(* rendered last; a modal is { element, id }: the element created by the   *)
(* innerHTML assignment and the scenario it shows.  closeModal sets a      *)
(* timer of 200 ms whose callback empties the container; these timers fire *)
(* in the order they were set.                                             *)
(***************************************************************************)
\* A number for the element the next innerHTML assignment creates: one that no
\* modal in the container and no pending callback refers to.
newElement(container, pending) ==
    CHOOSE n \in 1 .. (Len(container) + Len(pending) + 1) :
        /\ \A k \in DOMAIN container : container[k].element # n
        /\ \A k \in DOMAIN pending : pending[k].modal # n

\* openModalForScenario and openModal: the container and the body's overflow
\* they leave.
openModalForScenario(list, scenarioId, container, overflow, pending) ==
    LET i == findIndex(list, scenarioId)
    IN  IF i = -1 \/ ~Lookup(list[i], "detailedBreakdown").defined
        THEN [modalContainer |-> container, overflow |-> overflow]
        ELSE [modalContainer |-> <<[element |-> newElement(container, pending),
                                   id |-> list[i].id]>>,
              overflow |-> "hidden"]

\* closeCurrentModal and closeModal: the timers and the body's overflow they
\* leave.
closeCurrentModal(container, overflow, pending) ==
    IF container = <<>> THEN [timers |-> pending, overflow |-> overflow]
    ELSE [timers |-> Append(pending, [modal |-> container[1].element]),
          overflow |-> ""]

\* The lists an earlier session may have left, for the modal.
ModalStoredProbes ==
    StoredProbes \cup
        { JSONstringify(<<LegacyScenario, spread(LegacyScenario, [id |-> toString(1)])>>) }

InitModal ==
    /\ inputs = undefined
    /\ locals = undefined
    /\ results = undefined
    /\ detailedBreakdown = undefined
    /\ pc = "boot"
    /\ thrown = {}
    /\ scenarios = <<>>
    /\ localStorage \in ModalStoredProbes
    /\ now = 1
    /\ notified = 0
    /\ NoUI

\* click on the disclosure button of a card
ClickDisclosure ==
    /\ pc = "ready"
    /\ \E c \in DOMAIN cards :
           \E e \in {openModalForScenario(scenarios, cards[c].id, modalContainer,
                                          bodyOverflow, timers)} :
               /\ modalContainer' = e.modalContainer
               /\ bodyOverflow' = e.overflow
    /\ UNCHANGED <<engineVars, pc, thrown, managerVars, cards, timers, typed>>

\* The handlers that call closeCurrentModal.
CloseCurrentModal ==
    /\ Len(timers) < MaxTimers
    /\ \E e \in {closeCurrentModal(modalContainer, bodyOverflow, timers)} :
           /\ timers' = e.timers
           /\ bodyOverflow' = e.overflow
    /\ UNCHANGED <<engineVars, pc, thrown, managerVars, cards, typed, modalContainer>>

\* keydown of Escape, anywhere in the document
PressEscape == pc = "ready" /\ CloseCurrentModal

\* click on the close button of the modal
ClickModalClose == pc = "ready" /\ modalContainer # <<>> /\ CloseCurrentModal

\* click on the overlay of the modal, outside its content
ClickOverlay == pc = "ready" /\ modalContainer # <<>> /\ CloseCurrentModal

\* The callback closeModal has set 200 ms earlier.
CleanupFires ==
    /\ pc = "ready"
    /\ timers # <<>>
    /\ timers' = Tail(timers)
    /\ modalContainer' = <<>>
    /\ UNCHANGED <<engineVars, pc, thrown, managerVars, cards, typed, bodyOverflow>>

NextModal ==
    \/ DOMContentLoaded
    \/ ClickDisclosure
    \/ PressEscape
    \/ ClickModalClose
    \/ ClickOverlay
    \/ CleanupFires

SpecModal == InitModal /\ [][NextModal]_vars

(***************************************************************************)
(* Properties.  The expected values below are written from the inputs and  *)
(* the tables alone, without the engine's definitions.                     *)
(***************************************************************************)
\* Sum of f[x] over x in S.
RECURSIVE SumOver(_, _)
SumOver(f, S) ==
    IF S = {} THEN 0
    ELSE LET x == CHOOSE x \in S : TRUE IN f[x] + SumOver(f, S \ {x})

\* Left-to-right sum of the rows' field values, as the caller adds them up.
RECURSIVE SumRows(_, _)
SumRows(rows, field) ==
    IF rows = <<>> THEN 0 ELSE rows[1][field] + SumRows(Tail(rows), field)

TableBrackets == TAX_YEAR_DATA[inputs.taxYear].taxBrackets[inputs.filingStatus]

TableThresholds == TAX_YEAR_DATA[inputs.taxYear].ltcgThresholds[inputs.filingStatus]

\* C1: calculateTax and calculateDetailedTaxBreakdown agree on the same inputs:
\* the breakdown's ordinary rows add up to results.ordinaryTax, its three tier
\* taxes to results.capitalGainsTax, its niitAmount is results.niitTax, and the
\* three parts add up to results.totalTax.
C1_SummaryMatchesBreakdown ==
    pc = "done" =>
        LET rowsTax == SumRows(detailedBreakdown.ordinaryTax.brackets, "tax")
            cg == detailedBreakdown.capitalGainsTax
            tiersTax == cg.zeroBracket.tax + cg.fifteenBracket.tax + cg.twentyBracket.tax
        IN  /\ rowsTax = results.ordinaryTax
            /\ tiersTax = results.capitalGainsTax
            /\ detailedBreakdown.niit.niitAmount = results.niitTax
            /\ rowsTax + tiersTax + detailedBreakdown.niit.niitAmount = results.totalTax

\* Both calls made, several ordinary rows, and all three taxes positive.
C1_Witness ==
    /\ pc = "done"
    /\ Len(detailedBreakdown.ordinaryTax.brackets) >= 3
    /\ results.capitalGainsTax > 0
    /\ results.niitTax > 0

\* The claim's sum: over exactly the brackets whose lower bound is below the amount.
BracketSum(amount, brackets) ==
    LET below == { i \in 1 .. Len(brackets) : brackets[i].min < amount }
        part == [i \in 1 .. Len(brackets) |->
                    brackets[i].rate * (Min(amount, brackets[i].max) - brackets[i].min)]
    IN  SumOver(part, below)

\* First bracket whose lower bound the amount does not exceed (Len + 1 if none).
FirstNotExceeded(amount, brackets) ==
    LET stops == { i \in 1 .. Len(brackets) : amount <= brackets[i].min }
    IN  IF stops = {} THEN Len(brackets) + 1
        ELSE CHOOSE i \in stops : \A j \in stops : i <= j

\* C2: calculateTaxFromBrackets returns the sum, over exactly the brackets whose
\* lower bound is strictly below the amount, of rate * (min(amount, upper) - lower),
\* and its loop ends at the first bracket whose lower bound the amount does not exceed.
C2_BracketTaxIsSumBelowAmount ==
    pc # "inputs" =>
        /\ locals.ordinaryTax = BracketSum(locals.ordinaryTaxable, TableBrackets)
        /\ locals.bracketsVisited + 1 = FirstNotExceeded(locals.ordinaryTaxable, TableBrackets)
        /\ locals.bracketsVisited =
               Cardinality({ i \in 1 .. Len(TableBrackets) :
                               TableBrackets[i].min < locals.ordinaryTaxable })

\* The amount sits exactly on an inner bracket edge: the loop breaks there.
C2_Witness ==
    /\ pc = "done"
    /\ \E i \in 2 .. Len(TableBrackets) : locals.ordinaryTaxable = TableBrackets[i].min
    /\ locals.bracketsVisited >= 2
    /\ locals.ordinaryTax > 0

\* C3: the breakdown's ordinary rows are table brackets in ascending order, each
\* with a strictly positive amount and tax = amount * rate; the amounts add up to
\* taxableOrdinaryIncome; amount 0 gives no rows, and an amount equal to a bracket
\* boundary gives no row for the bracket above the boundary.
C3_OrdinaryRows ==
    pc = "done" =>
        LET rows == detailedBreakdown.ordinaryTax.brackets
            amount == detailedBreakdown.ordinaryTax.taxableOrdinaryIncome
        IN  /\ \A k \in 1 .. Len(rows) :
                   /\ \E i \in 1 .. Len(TableBrackets) :
                          /\ rows[k].range = <<TableBrackets[i].min, TableBrackets[i].max>>
                          /\ rows[k].rate = TableBrackets[i].rate
                   /\ rows[k].amount > 0
                   /\ rows[k].tax = rows[k].amount * rows[k].rate
            /\ \A k \in 1 .. Len(rows) - 1 : rows[k].range[1] < rows[k + 1].range[1]
            /\ SumRows(rows, "amount") = amount
            /\ (amount = 0 => rows = <<>>)
            /\ \A i \in 1 .. Len(TableBrackets) :
                   amount = TableBrackets[i].min =>
                       \A k \in 1 .. Len(rows) : rows[k].range[1] < TableBrackets[i].min

\* The taxable ordinary amount is exactly an inner bracket boundary.
C3_Witness ==
    /\ pc = "done"
    /\ \E i \in 3 .. Len(TableBrackets) :
           /\ detailedBreakdown.ordinaryTax.taxableOrdinaryIncome = TableBrackets[i].min
           /\ Len(detailedBreakdown.ordinaryTax.brackets) = i - 1

\* Amounts around every edge of a bracket list.
BracketAmountProbes(brackets) ==
    {0} \cup UNION { Near(brackets[i].min) : i \in 1 .. Len(brackets) }

C5_StackingConservation ==
    pc = "done" =>
        LET cg == detailedBreakdown.capitalGainsTax
        IN  /\ locals.zeroPortion >= 0
            /\ locals.fifteenPortion >= 0
            /\ locals.twentyPortion >= 0
            /\ locals.zeroPortion + locals.fifteenPortion + locals.twentyPortion
                   = locals.ltcgTaxable
            /\ cg.zeroBracket.amount >= 0
            /\ cg.fifteenBracket.amount >= 0
            /\ cg.twentyBracket.amount >= 0
            /\ cg.zeroBracket.amount + cg.fifteenBracket.amount + cg.twentyBracket.amount
                   = cg.taxableCapitalGains

\* Deductions reach into the gains, and the gains still span all three tiers.
C5_Witness ==
    /\ pc = "done"
    /\ locals.deductionLeftoverForLTCG > 0
    /\ locals.zeroPortion > 0
    /\ locals.fifteenPortion > 0
    /\ locals.twentyPortion > 0

\* Length of the part of the interval (lo, hi] that lies in (a, b].
Overlap(lo, hi, a, b) == Max(0, Min(hi, b) - Max(lo, a))

\* C6: gains stack on top of ordinary taxable income: zeroPortion =
\* min(l, max(0, zeroCeiling - ot)), fifteenPortion = min(l - zeroPortion,
\* max(0, fifteenCeiling - ot - zeroPortion)), twentyPortion the rest, and
\* capitalGainsTax = 0.15 * fifteenPortion + 0.20 * twentyPortion; equivalently the
\* parts of (ot, ot + l] below the zero ceiling, between the ceilings and above
\* the fifteen ceiling are taxed at 0%, 15% and 20%.
C6_StackingOnOrdinary ==
    pc = "done" =>
        LET cg == detailedBreakdown.capitalGainsTax
            ot == detailedBreakdown.ordinaryTax.taxableOrdinaryIncome
            l == cg.taxableCapitalGains
            z == TableThresholds.zero
            f == TableThresholds.fifteen
            expZero == Min(l, Max(0, z - ot))
            expFifteen == Min(l - expZero, Max(0, f - ot - expZero))
            expTwenty == l - expZero - expFifteen
        IN  /\ cg.zeroBracket.amount = expZero
            /\ cg.fifteenBracket.amount = expFifteen
            /\ cg.twentyBracket.amount = expTwenty
            /\ locals.zeroPortion = expZero
            /\ locals.fifteenPortion = expFifteen
            /\ locals.twentyPortion = expTwenty
            /\ results.capitalGainsTax = 150 * expFifteen + 200 * expTwenty
            /\ expZero = Overlap(ot, ot + l, 0, z)
            /\ expFifteen = Overlap(ot, ot + l, z, f)
            /\ expTwenty = Overlap(ot, ot + l, f, Infinity)

\* Ordinary taxable income fills part of the zero tier; the gains span all tiers.
C6_Witness ==
    /\ pc = "done"
    /\ detailedBreakdown.ordinaryTax.taxableOrdinaryIncome > 0
    /\ detailedBreakdown.capitalGainsTax.zeroBracket.amount > 0
    /\ detailedBreakdown.capitalGainsTax.fifteenBracket.amount > 0
    /\ detailedBreakdown.capitalGainsTax.twentyBracket.amount > 0

ExpOrdinaryGross == inputs.ordinaryIncome + inputs.ordinaryEarnings

ExpNetCapitalGains == Max(0, inputs.longTermCapitalGains - inputs.capitalLosses)

ExpTotalDeductions ==
    TAX_YEAR_DATA[inputs.taxYear].standardDeductions[inputs.filingStatus]
        + inputs.seniors65Plus
            * TAX_YEAR_DATA[inputs.taxYear].seniorAdditionalDeduction[inputs.filingStatus]

\* C7: deductions are consumed by ordinary income first: ordinaryTaxable =
\* max(0, ordinaryGross - totalDeductions), ltcgTaxable = max(0, netCapitalGains -
\* max(0, totalDeductions - ordinaryGross)); so ordinaryGross >= totalDeductions
\* gives ltcgTaxable = netCapitalGains, and ordinaryGross < totalDeductions gives
\* ordinaryTaxable = 0.
C7_DeductionsOrdinaryFirst ==
    pc = "done" =>
        LET og == ExpOrdinaryGross
            ncg == ExpNetCapitalGains
            td == ExpTotalDeductions
            ot == detailedBreakdown.ordinaryTax.taxableOrdinaryIncome
            l == detailedBreakdown.capitalGainsTax.taxableCapitalGains
        IN  /\ ot = Max(0, og - td)
            /\ l = Max(0, ncg - Max(0, td - og))
            /\ locals.ordinaryTaxable = Max(0, og - td)
            /\ locals.ltcgTaxable = Max(0, ncg - Max(0, td - og))
            /\ (og >= td => l = ncg /\ locals.ltcgTaxable = ncg)
            /\ (og < td => ot = 0 /\ locals.ordinaryTaxable = 0)

\* Ordinary income is below the deductions and the rest of them cuts into the gains.
C7_Witness ==
    /\ pc = "done"
    /\ ExpOrdinaryGross > 0
    /\ ExpOrdinaryGross < ExpTotalDeductions
    /\ detailedBreakdown.capitalGainsTax.taxableCapitalGains > 0
    /\ detailedBreakdown.capitalGainsTax.taxableCapitalGains < ExpNetCapitalGains

\* C8: niitTax = 0.038 * min(netInvestmentIncome, niitExcess), with
\* netInvestmentIncome = max(0, ordinaryEarnings) + netCapitalGains and niitExcess =
\* max(0, ordinaryGross + netCapitalGains - threshold of the filing status); so
\* niitTax <= 0.038 * netInvestmentIncome, and niitTax = 0 when the approximate MAGI
\* does not exceed the threshold.
C8_NiitLesserOf ==
    pc = "done" =>
        LET threshold == TAX_YEAR_DATA[inputs.taxYear].niitThresholds[inputs.filingStatus]
            nii == Max(0, inputs.ordinaryEarnings) + ExpNetCapitalGains
            magi == ExpOrdinaryGross + ExpNetCapitalGains
            excess == Max(0, magi - threshold)
            lesser == IF nii <= excess THEN nii ELSE excess
        IN  /\ results.niitTax = 38 * lesser
            /\ detailedBreakdown.niit =
                   [magi |-> magi, threshold |-> threshold, excess |-> excess,
                    netInvestmentIncome |-> nii, niitAmount |-> 38 * lesser]
            /\ results.niitTax <= 38 * nii
            /\ (magi <= threshold => results.niitTax = 0)

\* The excess over the threshold is positive and smaller than the investment income.
C8_Witness ==
    /\ pc = "done"
    /\ detailedBreakdown.niit.excess > 0
    /\ detailedBreakdown.niit.excess < detailedBreakdown.niit.netInvestmentIncome
    /\ results.niitTax = 38 * detailedBreakdown.niit.excess

\* C9: standardDeduction is the table value for the year and filing status,
\* seniorDeduction = seniors65Plus * the table's per-person amount, totalDeductions
\* is their sum, the same in calculateTax and in the breakdown; 2024, single, one
\* senior gives seniorDeduction 1950 and totalDeductions 16550.
C9_Deductions ==
    pc = "done" =>
        LET taxData == TAX_YEAR_DATA[inputs.taxYear]
            std == taxData.standardDeductions[inputs.filingStatus]
            per == taxData.seniorAdditionalDeduction[inputs.filingStatus]
        IN  /\ results.standardDeduction = std
            /\ results.seniorDeduction = inputs.seniors65Plus * per
            /\ results.totalDeductions = std + inputs.seniors65Plus * per
            /\ detailedBreakdown.deductions =
                   [standardDeduction |-> results.standardDeduction,
                    seniorDeduction |-> results.seniorDeduction,
                    seniorDeductionPerPerson |-> per,
                    totalDeductions |-> results.totalDeductions]
            /\ (inputs.taxYear = 2024 /\ inputs.filingStatus = "single"
                    /\ inputs.seniors65Plus = 1
                  => /\ results.standardDeduction = 14600
                     /\ results.seniorDeduction = 1950
                     /\ results.totalDeductions = 16550)

\* Joint filers, both 65 or older.
C9_Witness ==
    /\ pc = "done"
    /\ inputs.filingStatus = "marriedFilingJointly"
    /\ inputs.seniors65Plus = 2
    /\ results.seniorDeduction = 2 * detailedBreakdown.deductions.seniorDeductionPerPerson
    /\ results.totalDeductions > results.standardDeduction

\* C10: taxableIncome = max(0, totalIncome - totalDeductions) with totalIncome =
\* ordinaryIncome + ordinaryEarnings + longTermCapitalGains - capitalLosses, which
\* is not clamped at zero.
C10_TaxableIncome ==
    pc = "done" =>
        LET totalIncome == inputs.ordinaryIncome + inputs.ordinaryEarnings
                             + inputs.longTermCapitalGains - inputs.capitalLosses
        IN  /\ locals.totalIncome = totalIncome
            /\ results.taxableIncome = Max(0, totalIncome - ExpTotalDeductions)

\* Losses exceed the gains and the excess reduces a positive taxableIncome.
C10_Witness ==
    /\ pc = "done"
    /\ inputs.capitalLosses > inputs.longTermCapitalGains
    /\ results.taxableIncome > 0
    /\ results.taxableIncome < ExpOrdinaryGross - ExpTotalDeductions

\* C11: effectiveRate = (totalTax / totalIncome) * 100 when totalIncome > 0 and 0
\* otherwise, with totalTax = ordinaryTax + capitalGainsTax + niitTax and
\* totalIncome = ordinaryIncome + ordinaryEarnings + longTermCapitalGains -
\* capitalLosses.  (Taxes are in thousandths, so the percentage is
\* totalTax / (10 * totalIncome).)
C11_EffectiveRate ==
    pc = "done" =>
        LET totalIncome == inputs.ordinaryIncome + inputs.ordinaryEarnings
                             + inputs.longTermCapitalGains - inputs.capitalLosses
            totalTax == results.ordinaryTax + results.capitalGainsTax + results.niitTax
        IN  /\ results.totalTax = totalTax
            /\ totalIncome > 0 /\ totalTax # 0 =>
                   results.effectiveRate = [num |-> totalTax, den |-> 10 * totalIncome]
            /\ totalIncome > 0 /\ totalTax = 0 => results.effectiveRate.num = 0
            /\ totalIncome <= 0 => results.effectiveRate.num = 0
            /\ results.effectiveRate.den > 0

\* Income and tax are both positive, with all three taxes contributing.
C11_Witness ==
    /\ pc = "done"
    /\ results.ordinaryTax > 0
    /\ results.capitalGainsTax > 0
    /\ results.niitTax > 0
    /\ results.effectiveRate.num = results.totalTax
    /\ results.effectiveRate.den > 10 * ExpOrdinaryGross

\* Every numeric field of a TaxResults record.
ResultsNumbers(r) ==
    {r.standardDeduction, r.seniorDeduction, r.totalDeductions, r.taxableIncome,
     r.ordinaryTax, r.capitalGainsTax, r.niitTax, r.totalTax, r.effectiveRate.num}

\* Every numeric field of a DetailedTaxBreakdown record.
BreakdownNumbers(b) ==
    {b.income.totalStandardIncome, b.income.longTermCapitalGains, b.income.capitalLosses,
     b.deductions.standardDeduction, b.deductions.seniorDeduction,
     b.deductions.seniorDeductionPerPerson, b.deductions.totalDeductions,
     b.ordinaryTax.taxableOrdinaryIncome,
     b.capitalGainsTax.taxableCapitalGains,
     b.capitalGainsTax.zeroBracket.amount, b.capitalGainsTax.zeroBracket.tax,
     b.capitalGainsTax.fifteenBracket.amount, b.capitalGainsTax.fifteenBracket.tax,
     b.capitalGainsTax.twentyBracket.amount, b.capitalGainsTax.twentyBracket.tax,
     b.niit.magi, b.niit.threshold, b.niit.excess, b.niit.netInvestmentIncome,
     b.niit.niitAmount}
        \cup { b.ordinaryTax.brackets[k].amount : k \in 1 .. Len(b.ordinaryTax.brackets) }
        \cup { b.ordinaryTax.brackets[k].tax : k \in 1 .. Len(b.ordinaryTax.brackets) }

AllMoneyZero ==
    /\ inputs.ordinaryIncome = 0
    /\ inputs.ordinaryEarnings = 0
    /\ inputs.longTermCapitalGains = 0
    /\ inputs.capitalLosses = 0

\* C12: with all four monetary inputs 0 (any year, status and seniors65Plus in
\* range) calculateTax returns taxableIncome, ordinaryTax, capitalGainsTax, niitTax,
\* totalTax and effectiveRate 0, the breakdown has no ordinary rows, and no field
\* of either result is negative.
C12_ZeroIncome ==
    pc = "done" /\ AllMoneyZero =>
        /\ results.taxableIncome = 0
        /\ results.ordinaryTax = 0
        /\ results.capitalGainsTax = 0
        /\ results.niitTax = 0
        /\ results.totalTax = 0
        /\ results.effectiveRate.num = 0
        /\ detailedBreakdown.ordinaryTax.brackets = <<>>
        /\ \A x \in ResultsNumbers(results) \cup BreakdownNumbers(detailedBreakdown) : x >= 0

\* Zero income of joint filers who are both 65 or older: the deductions are largest.
C12_Witness ==
    /\ pc = "done"
    /\ AllMoneyZero
    /\ inputs.seniors65Plus = 2
    /\ results.totalDeductions > 0
    /\ detailedBreakdown.ordinaryTax.taxableOrdinaryIncome = 0

\* C13: for all integer inputs, negative amounts and a negative seniors65Plus
\* included, calculateTax returns taxableIncome, ordinaryTax, capitalGainsTax,
\* niitTax and totalTax >= 0, and the breakdown's taxableOrdinaryIncome,
\* taxableCapitalGains, tier amounts, NIIT excess and netInvestmentIncome are >= 0.
C13_NoNegativeResults ==
    pc = "done" =>
        /\ results.taxableIncome >= 0
        /\ results.ordinaryTax >= 0
        /\ results.capitalGainsTax >= 0
        /\ results.niitTax >= 0
        /\ results.totalTax >= 0
        /\ detailedBreakdown.ordinaryTax.taxableOrdinaryIncome >= 0
        /\ detailedBreakdown.capitalGainsTax.taxableCapitalGains >= 0
        /\ detailedBreakdown.capitalGainsTax.zeroBracket.amount >= 0
        /\ detailedBreakdown.capitalGainsTax.fifteenBracket.amount >= 0
        /\ detailedBreakdown.capitalGainsTax.twentyBracket.amount >= 0
        /\ detailedBreakdown.niit.excess >= 0
        /\ detailedBreakdown.niit.netInvestmentIncome >= 0

\* Negative earnings, negative losses and negative deductions at once, and a
\* positive NIIT excess.
C13_Witness ==
    /\ pc = "done"
    /\ inputs.ordinaryEarnings < 0
    /\ inputs.capitalLosses < 0
    /\ results.totalDeductions < 0
    /\ detailedBreakdown.niit.excess > 0
    /\ results.totalTax > 0

KnownKeys ==
    /\ inputs.taxYear \in {2024, 2025}
    /\ inputs.filingStatus \in {"single", "marriedFilingJointly", "marriedFilingSeparately"}

\* C14: called with a tax year or a filing status that is no key of the tax
\* table, calculateTax and calculateDetailedTaxBreakdown signal an error and return
\* no result; with known keys both return.
C14_UnknownKeyThrows ==
    pc = "done" =>
        /\ ~KnownKeys =>
               /\ thrown = {"calculateTax", "calculateDetailedTaxBreakdown"}
               /\ results = undefined
               /\ detailedBreakdown = undefined
        /\ KnownKeys =>
               /\ thrown = {}
               /\ results # undefined
               /\ detailedBreakdown # undefined

\* Both functions were called with a known year and an unknown filing status.
C14_Witness ==
    /\ pc = "done"
    /\ inputs.taxYear = 2024
    /\ inputs.filingStatus = UnknownFilingStatus
    /\ inputs.ordinaryIncome > 0
    /\ "calculateTax" \in thrown
    /\ "calculateDetailedTaxBreakdown" \in thrown

\* A bracket list partitions [0, +infinity) with non-decreasing rates.
PartitionsNonNegatives(brackets) ==
    /\ Len(brackets) >= 1
    /\ brackets[1].min = 0
    /\ \A i \in 1 .. Len(brackets) : brackets[i].min < brackets[i].max
    /\ \A i \in 1 .. Len(brackets) - 1 :
           /\ brackets[i].max = brackets[i + 1].min
           /\ brackets[i].rate <= brackets[i + 1].rate
    /\ brackets[Len(brackets)].max = Infinity
    /\ \A i \in 1 .. Len(brackets) : brackets[i].min < Infinity

\* C15: every bracket list of the tax tables (each year, each filing status, and
\* the 2024-only calculator's lists) starts at 0, has min < max in each bracket,
\* each max equal to the next min, Infinity as the last max and non-decreasing
\* rates; each status's LTCG zero ceiling is below its fifteen ceiling.
C15_TablesPartition ==
    /\ \A y \in DOMAIN TAX_YEAR_DATA :
           /\ DOMAIN TAX_YEAR_DATA[y].taxBrackets =
                  {"single", "marriedFilingJointly", "marriedFilingSeparately"}
           /\ \A fs \in DOMAIN TAX_YEAR_DATA[y].taxBrackets :
                  PartitionsNonNegatives(TAX_YEAR_DATA[y].taxBrackets[fs])
           /\ \A fs \in DOMAIN TAX_YEAR_DATA[y].ltcgThresholds :
                  TAX_YEAR_DATA[y].ltcgThresholds[fs].zero
                      < TAX_YEAR_DATA[y].ltcgThresholds[fs].fifteen
    /\ \A fs \in DOMAIN TAX_BRACKETS : PartitionsNonNegatives(TAX_BRACKETS[fs])
    /\ \A fs \in DOMAIN LTCG_THRESHOLDS :
           LTCG_THRESHOLDS[fs].zero < LTCG_THRESHOLDS[fs].fifteen
    /\ pc = "done" =>
           \* the bracket holding the taxable amount exists and is the last one visited
           LET a == locals.ordinaryTaxable
           IN  a > 0 =>
                   /\ TableBrackets[locals.bracketsVisited].min < a
                   /\ a <= TableBrackets[locals.bracketsVisited].max

\* The engine ran on an amount in the top bracket, whose max is Infinity.
C15_Witness ==
    /\ pc = "done"
    /\ locals.bracketsVisited = Len(TableBrackets)
    /\ TableBrackets[locals.bracketsVisited].max = Infinity
    /\ locals.ordinaryTaxable > TableBrackets[locals.bracketsVisited].min

ReferenceJoint ==
    /\ inputs.taxYear = 2024
    /\ inputs.filingStatus = "marriedFilingJointly"
    /\ inputs.ordinaryIncome = 100000
    /\ inputs.ordinaryEarnings = 0
    /\ inputs.longTermCapitalGains = 50000
    /\ inputs.capitalLosses = 0
    /\ inputs.seniors65Plus = 0

\* C16: 2024, marriedFilingJointly, ordinaryIncome 100000, ordinaryEarnings 0,
\* longTermCapitalGains 50000, capitalLosses 0, seniors65Plus 0 yields
\* totalDeductions 29200, taxableOrdinaryIncome 70800, taxableCapitalGains 50000,
\* tier amounts 23250 / 26750 / 0 and capitalGainsTax 4012.50 (4012500 thousandths).
C16_ReferenceJointScenario ==
    pc = "done" /\ ReferenceJoint =>
        /\ results.totalDeductions = 29200
        /\ detailedBreakdown.deductions.totalDeductions = 29200
        /\ detailedBreakdown.ordinaryTax.taxableOrdinaryIncome = 70800
        /\ detailedBreakdown.capitalGainsTax.taxableCapitalGains = 50000
        /\ detailedBreakdown.capitalGainsTax.zeroBracket.amount = 23250
        /\ detailedBreakdown.capitalGainsTax.fifteenBracket.amount = 26750
        /\ detailedBreakdown.capitalGainsTax.twentyBracket.amount = 0
        /\ results.capitalGainsTax = 4012500
        /\ detailedBreakdown.capitalGainsTax.fifteenBracket.tax = 4012500

\* The engine has run on the reference scenario.
C16_Witness ==
    /\ pc = "done"
    /\ ReferenceJoint
    /\ results.capitalGainsTax > 0
    /\ results.ordinaryTax > 0

\* The scenario's results are the engine's for the inputs it holds now.
Paired(scenario) ==
    /\ ~calculateTaxOutcome(scenario.inputs).threw
    /\ scenario.results = calculateTaxOutcome(scenario.inputs).value
    /\ ~calculateDetailedTaxBreakdownOutcome(scenario.inputs).threw
    /\ scenario.detailedBreakdown =
           calculateDetailedTaxBreakdownOutcome(scenario.inputs).value

\* C17: after any sequence of ScenarioManager operations every scenario's
\* results equal calculateTax(its current inputs) and its detailedBreakdown
\* equals calculateDetailedTaxBreakdown(its current inputs).
C17_ResultsOfCurrentInputs ==
    \A i \in DOMAIN scenarios : Paired(scenarios[i])

\* A scenario that was updated to 60000 of ordinary income and then to a tax
\* year no table has: it holds the unknown year with the results of 2024.
C17_Witness ==
    \E i \in DOMAIN scenarios :
        /\ scenarios[i].inputs.taxYear = UnknownTaxYear
        /\ scenarios[i].inputs.ordinaryIncome = 60000
        /\ scenarios[i].results =
               calculateTax(spread(scenarios[i].inputs, [taxYear |-> 2024]))

\* The update kept inputs, results and detailedBreakdown of every scenario.
SameData(before, after) ==
    /\ Len(before) = Len(after)
    /\ \A i \in DOMAIN before :
           /\ after[i].inputs = before[i].inputs
           /\ after[i].results = before[i].results
           /\ after[i].detailedBreakdown = before[i].detailedBreakdown

\* C18: when the engine throws during updateScenario or
\* updateScenarioSilently, the inputs, results and detailedBreakdown of the
\* scenario are left as they were before the call.
C18_RecomputeFailsAtomically ==
    [][thrown' # {} => SameData(scenarios, scenarios')]_vars

\* An update has thrown and a scenario holds a tax year no table has.
C18_Witness ==
    /\ thrown # {}
    /\ \E i \in DOMAIN scenarios :
           /\ scenarios[i].inputs.taxYear = UnknownTaxYear
           /\ scenarios[i].results.standardDeduction = 14600

\* C19: after any sequence of edits in the cards (typing in the 65+ number
\* field, toggling the 65+ checkbox, changing the tax-table select) every
\* scenario has seniors65Plus within 0..2 if its filing status is
\* marriedFilingJointly and within 0..1 otherwise.
C19_SeniorsWithinBounds ==
    \A i \in DOMAIN scenarios :
        scenarios[i].inputs.seniors65Plus
            \in seniorsRange(scenarios[i].inputs.filingStatus)

\* A joint filer's scenario holds the 7 that was typed into its number field.
C19_Witness ==
    \E i \in DOMAIN scenarios :
        /\ scenarios[i].inputs.filingStatus = "marriedFilingJointly"
        /\ scenarios[i].inputs.seniors65Plus = 7
        /\ typed[scenarios[i].id].seniors65Plus.latest = <<"7">>

\* No two pending timers are for the same field of the same scenario.
OneTimerPerField(pending) ==
    \A j, k \in DOMAIN pending :
        (pending[j].id = pending[k].id /\ pending[j].field = pending[k].field)
            => j = k

\* Every scenario holds the last valid amount typed into its ordinary-income
\* field, if one was typed, with the results of the inputs it holds.
Settled(list, history) ==
    \A i \in DOMAIN list :
        /\ Paired(list[i])
        /\ history[list[i].id].ordinaryIncome.anyValid
               => list[i].inputs.ordinaryIncome
                      = history[list[i].id].ordinaryIncome.valid

\* C20: every input event leaves one pending timer for its field, a timer that
\* changes a scenario applies the value typed last into the field, and once
\* no timer is pending every scenario holds the last valid value typed, with
\* the results of exactly its inputs.
C20_LastTypedValueWins ==
    [][/\ OneTimerPerField(timers')
       /\ (timers # <<>> /\ timers' = Tail(timers) /\ scenarios' # scenarios)
              => Head(timers).value
                     = typed[Head(timers).id][Head(timers).field].latest
       /\ timers' = <<>> => Settled(scenarios', typed')]_vars

\* A timer of a replaced element is pending with an amount typed before the
\* one the field's own timer holds.
C20_Witness ==
    \E j, k \in DOMAIN timers :
        /\ j < k
        /\ ~timers[j].live /\ timers[k].live
        /\ timers[j].id = timers[k].id
        /\ timers[j].field = "ordinaryIncome" /\ timers[k].field = "ordinaryIncome"
        /\ timers[j].value = <<"7">> /\ timers[k].value = <<"9">>

\* The text is the serialization of the list: it parses to as many scenarios
\* with the same ids, names and inputs in the same order.
Serializes(text, list) ==
    /\ text # null
    /\ ~JSONparse(text).threw
    /\ Len(JSONparse(text).value) = Len(list)
    /\ \A i \in DOMAIN list :
           /\ JSONparse(text).value[i].id = list[i].id
           /\ JSONparse(text).value[i].name = list[i].name
           /\ JSONparse(text).value[i].inputs = list[i].inputs

\* The call with this id returned normally: if the id matched a scenario the
\* stored text is the serialization of the list, and if it matched none the
\* list and the stored text are as before.
PersistedOrIgnored(id) ==
    thrown' = {} =>
        IF findIndex(scenarios, id) # -1
        THEN Serializes(localStorage', scenarios')
        ELSE scenarios' = scenarios /\ localStorage' = localStorage

NewIncomeFields == {"ira401kDistributions", "pensionIncome", "socialSecurityIncome"}

\* Stored inputs with a missing (or zero) taxYear read as 2024 and every
\* missing new income field read as 0.
Defaulted(in) ==
    [f \in DOMAIN in \cup {"taxYear"} \cup NewIncomeFields |->
        IF f = "taxYear"
        THEN IF f \in DOMAIN in /\ in[f] # 0 THEN in[f] ELSE 2024
        ELSE IF f \in DOMAIN in THEN in[f] ELSE 0]

\* The stored text parses to a list of scenarios the engine has tables for.
Loadable(text) ==
    /\ text # null
    /\ text.wellFormed
    /\ \A i \in DOMAIN text.json :
           /\ Defaulted(text.json[i].inputs).taxYear \in TaxYear
           /\ Defaulted(text.json[i].inputs).filingStatus \in FilingStatus

\* C22: the constructor keeps the id, the name and the position of every
\* stored scenario, reads a missing taxYear as 2024 and a missing new income
\* field as 0, recomputes results and detailedBreakdown from these inputs and
\* stores the migrated list; a stored value that cannot be loaded gives the
\* empty list.
C22_LoadMigrates ==
    [][\/ ~Constructor
       \/ IF Loadable(localStorage)
          THEN /\ Len(scenarios') = Len(localStorage.json)
               /\ \A i \in DOMAIN localStorage.json :
                      /\ scenarios'[i].id = localStorage.json[i].id
                      /\ scenarios'[i].name = localStorage.json[i].name
                      /\ scenarios'[i].inputs = Defaulted(localStorage.json[i].inputs)
                      /\ Paired(scenarios'[i])
               /\ Serializes(localStorage', scenarios')
          ELSE scenarios' = <<>>]_vars

\* The scenario of the earlier schema is loaded: tax year 2024, the new income
\* fields 0, the deductions of two seniors filing jointly, and it is stored.
C22_Witness ==
    /\ pc = "ready"
    /\ Len(scenarios) = 1
    /\ scenarios[1].id = LegacyScenario.id
    /\ scenarios[1].name = LegacyScenario.name
    /\ scenarios[1].inputs.taxYear = 2024
    /\ scenarios[1].inputs.pensionIncome = 0
    /\ scenarios[1].results.totalDeductions = 32300
    /\ localStorage = JSONstringify(scenarios)

\* createScenario, duplicateScenario and deleteScenario call notify() once if
\* they change the list, and not at all if the id matches no scenario.
ListOperationsNotify ==
    /\ (notified' = 1) \/ ~CreateScenario
    /\ \A id \in IdProbes :
           \/ notified' = IF findIndex(scenarios, id) # -1 THEN 1 ELSE 0
           \/ ~DuplicateScenarioCall(id) /\ ~DeleteScenarioCall(id)

\* updateScenarioSilently makes the change and the save of updateScenario and
\* calls no listener.
SilentUpdateNotifiesNobody ==
    \A id \in IdProbes, updates \in UpdateProbes :
        \/ ~UpdateScenarioSilentlyCall(id, updates)
        \/ /\ notified' = 0
           /\ \E e \in {updateScenario(scenarios, id, updates)} :
                  /\ scenarios' = e.scenarios
                  /\ localStorage' = IF e.saved THEN JSONstringify(e.scenarios)
                                     ELSE localStorage

C24_ReportedIsTaxed ==
    pc = "done" =>
        /\ results.taxableIncome
               = detailedBreakdown.ordinaryTax.taxableOrdinaryIncome
                     + detailedBreakdown.capitalGainsTax.taxableCapitalGains
        /\ (/\ results.taxableIncome = 0
            /\ detailedBreakdown.niit.magi <= detailedBreakdown.niit.threshold)
               => results.totalTax = 0

\* Losses beyond the gains bring the reported taxableIncome to 0 while ordinary
\* income above the deductions is taxed.
C24_Witness ==
    /\ pc = "done"
    /\ inputs.capitalLosses > inputs.longTermCapitalGains
    /\ results.taxableIncome = 0
    /\ detailedBreakdown.niit.magi <= detailedBreakdown.niit.threshold
    /\ detailedBreakdown.ordinaryTax.taxableOrdinaryIncome > 0
    /\ results.totalTax > 0

\* The numbers of a breakdown: everything but the range labels of the rows.
Numeric(breakdown) ==
    [breakdown EXCEPT
        !.ordinaryTax.brackets =
            [i \in DOMAIN breakdown.ordinaryTax.brackets |->
                [amount |-> breakdown.ordinaryTax.brackets[i].amount,
                 rate |-> breakdown.ordinaryTax.brackets[i].rate,
                 tax |-> breakdown.ordinaryTax.brackets[i].tax]]]

\* C25: for tax year 2024 the multi-year calculator and the 2024-only
\* calculator agree: calculateTax returns the same record field by field, and
\* calculateDetailedTaxBreakdown the same numbers in every numeric field.
C25_SameAs2024Only ==
    pc = "done2024" =>
        /\ DOMAIN locals.results = DOMAIN results
        /\ \A field \in DOMAIN results : locals.results[field] = results[field]
        /\ Numeric(locals.detailedBreakdown) = Numeric(detailedBreakdown)

\* Joint filers with taxed gains in two tiers, a NIIT and a senior deduction,
\* computed by both calculators.
C25_Witness ==
    /\ pc = "done2024"
    /\ inputs.filingStatus = "marriedFilingJointly"
    /\ locals.results.seniorDeduction > 0
    /\ locals.results.ordinaryTax > 0
    /\ locals.detailedBreakdown.capitalGainsTax.fifteenBracket.amount > 0
    /\ locals.detailedBreakdown.capitalGainsTax.twentyBracket.amount > 0
    /\ locals.results.niitTax > 0
    /\ Len(locals.detailedBreakdown.ordinaryTax.brackets) > 1

\* C26: with the other inputs fixed and non-negative, more ordinaryIncome never
\* gives less ordinaryTax, capitalGainsTax, niitTax or totalTax.
C26_MoreIncomeNeverLessTax ==
    pc = "raised" =>
        /\ results.ordinaryTax >= locals.ordinaryTax
        /\ results.capitalGainsTax >= locals.capitalGainsTax
        /\ results.niitTax >= locals.niitTax
        /\ results.totalTax >= locals.totalTax

\* The added income raises the ordinary tax, moves gains out of the 0% tier
\* and brings a NIIT that was not due before.
C26_Witness ==
    /\ pc = "raised"
    /\ results.ordinaryTax > locals.ordinaryTax
    /\ results.capitalGainsTax > locals.capitalGainsTax
    /\ locals.niitTax = 0
    /\ results.niitTax > 0

\* C27: in every state reached by createScenario, duplicateScenario,
\* deleteScenario and loads, no two scenarios of the list have the same id.
C27_UniqueIds ==
    \A i, j \in DOMAIN scenarios : scenarios[i].id = scenarios[j].id => i = j

\* Two scenarios made within one millisecond have one id.
C27_Witness ==
    /\ pc = "ready"
    /\ Len(scenarios) = 2
    /\ scenarios[1].id = scenarios[2].id

\* The scenarios other than the one at index i are the same objects with the
\* same properties, at the same places of the list.
OthersUntouched(i) ==
    /\ Len(scenarios') = Len(scenarios)
    /\ \A j \in DOMAIN scenarios : j # i => scenarios'[j] = scenarios[j]

\* The scenarios other than the one at index i are left, in their order.
OthersLeft(i) ==
    /\ Len(scenarios') = Len(scenarios) - 1
    /\ \A j \in DOMAIN scenarios' :
           scenarios'[j] = IF j < i THEN scenarios[j] ELSE scenarios[j + 1]

\* C28: updateScenario, updateScenarioSilently and deleteScenario of one
\* scenario leave the name, inputs, results and detailedBreakdown of every
\* other scenario and their order as they were, a duplicate that holds the
\* objects of the updated scenario, and the original of an updated duplicate,
\* included.
C28_OthersUnchanged ==
    [][\A id \in IdProbes :
           \/ findIndex(scenarios, id) = -1
           \/ /\ OthersLeft(findIndex(scenarios, id)) \/ ~DeleteScenarioObjectsCall(id)
              /\ \/ OthersUntouched(findIndex(scenarios, id))
                 \/ \A updates \in UpdateProbes :
                        /\ ~UpdateScenarioObjectsCall(id, updates)
                        /\ ~UpdateScenarioSilentlyObjectsCall(id, updates)]_vars

\* An original was updated after it was duplicated: the duplicate has the
\* inputs and results it was made with, in objects the original no longer holds.
C28_Witness ==
    /\ pc = "ready"
    /\ Len(scenarios) = 2
    /\ scenarios[1].name = <<"Plan B">>
    /\ scenarios[1].inputs.properties.ordinaryIncome = 60000
    /\ scenarios[2].name = <<"New Scenario", " (Copy)">>
    /\ scenarios[2].inputs.properties.ordinaryIncome = 0
    /\ scenarios[2].results.properties.totalTax = 0
    /\ scenarios[1].inputs.address # scenarios[2].inputs.address
    /\ scenarios[1].results.address # scenarios[2].results.address

\* C29: under any interleaving of opening, closing and the delayed cleanup, a
\* modal that was opened stays in the container until the cleanup of a close
\* made after it opened, and the body's overflow is 'hidden' only while a modal
\* is in the container.
C29_ModalStaysUntilClosed ==
    /\ [](bodyOverflow = "hidden" => modalContainer # <<>>)
    /\ [][(modalContainer # <<>> /\ modalContainer' = <<>>)
             => /\ timers # <<>>
                /\ Head(timers).modal = modalContainer[1].element]_vars

\* The cleanup of an earlier close has removed a modal opened after it: the
\* container is empty and the page cannot be scrolled.
C29_Witness ==
    /\ pc = "ready"
    /\ modalContainer = <<>>
    /\ bodyOverflow = "hidden"
    /\ timers = <<>>

\* The card shows the scenario: each text field that holds a valid integer
\* holds the stored value of its field, and the results grid holds the results
\* of the inputs the scenario has now.
Shows(card, scenario) ==
    /\ \A field \in TextFields(card) :
           isValidInteger(fieldText(card, field))
               => parseIntegerValue(fieldText(card, field)) = scenario.inputs[field]
    /\ ~calculateTaxOutcome(scenario.inputs).threw
    /\ card.results = calculateTaxOutcome(scenario.inputs).value

\* C30: under any interleaving of typing, timer firings and renders caused by
\* other edits, once no debounce timer is pending every card shows the
\* scenario of its data-id.
C30_DisplayShowsModel ==
    (pc = "ready" /\ timers = <<>>) =>
        \A c \in DOMAIN cards :
            /\ findIndex(scenarios, cards[c].id) # -1
            /\ Shows(cards[c], scenarios[findIndex(scenarios, cards[c].id)])

\* No timer is pending, the scenario holds the 7 that was typed before a
\* render, with its results, and the field of the new card shows 0.
C30_Witness ==
    /\ pc = "ready"
    /\ timers = <<>>
    /\ \E c \in DOMAIN cards :
           /\ cards[c].ordinaryIncome = <<"0">>
           /\ findIndex(scenarios, cards[c].id) # -1
           /\ scenarios[findIndex(scenarios, cards[c].id)].inputs.ordinaryIncome = 7
           /\ cards[c].results = scenarios[findIndex(scenarios, cards[c].id)].results

====
